---- MODULE Spec2Model ----
(***************************************************************************)
(* Asset management frontend: the data hooks of hooks/useAssets.ts over    *)
(* the AssetApi resource module, the ApiException it throws and the error  *)
(* formatter of utils/errorHandler.ts.                                     *)
(*                                                                         *)
(* One hook instance is modelled at a time (the hook is chosen in Init);   *)
(* its invocations may overlap.  A JavaScript value that may be null or    *)
(* undefined is a sequence of length at most one: <<>> is null/undefined,  *)
(* <<v>> is the value v.  JavaScript strings are TLA+ strings.             *)
(***************************************************************************)
EXTENDS Integers, Sequences, FiniteSets, TLC

\* ------------------------------------------------------------------ bounds

\* Invocations one hook instance makes in a run (mount, re-render, refetch,
\* mutate); the guards of the invoking actions cap the counter.
MaxInvocations == 3

\* ------------------------------------------------------- JavaScript values

Null == <<>>
Str(s) == <<s>>

\* JavaScript truthiness of an optional string: undefined, null and "" are falsy.
Truthy(o) == o # Null /\ o[1] # ""

\* s contains t as a substring (String.prototype.includes).
Contains(s, t) ==
  \E i \in 1..(Len(s) - Len(t) + 1) : SubSeq(s, i, i + Len(t) - 1) = t

\* Array.prototype.join(", ") over optional strings: undefined joins as "".
RECURSIVE JoinComma(_)
JoinComma(xs) ==
  IF xs = <<>> THEN ""
  ELSE LET h == IF xs[1] = Null THEN "" ELSE xs[1][1]
       IN IF Len(xs) = 1 THEN h ELSE h \o ", " \o JoinComma(Tail(xs))

\* ------------------------------------------------- backend error payloads

\* The `details` member of an error envelope: absent, a (non-array) object, or
\* an array whose items are null or objects with an optional `msg`.
NoDetails == [kind |-> "absent", items |-> <<>>, text |-> ""]
ObjectDetails == [kind |-> "object", items |-> <<>>, text |-> ""]
ArrayDetails(items) == [kind |-> "array", items |-> items, text |-> ""]
Item(msg) == [isNull |-> FALSE, msg |-> msg]
NullItem == [isNull |-> TRUE, msg |-> Null]

\* A response body: none, a plain string, or a JSON object that may carry an
\* `error` envelope {code, message, details} and/or a `detail` member.
NoBody == [kind |-> "none", text |-> "", error |-> <<>>, detail |-> Null]
TextBody(t) == [kind |-> "string", text |-> t, error |-> <<>>, detail |-> Null]
Envelope(code, message, details) ==
  [kind |-> "object", text |-> "",
   error |-> <<[code |-> code, message |-> message, details |-> details]>>,
   detail |-> Null]
DetailBody(d) == [kind |-> "object", text |-> "", error |-> <<>>, detail |-> Str(d)]

\* The messages the backend sends with a DUPLICATE_SERIAL conflict.
DuplicateMessages ==
  {Str(""), Str("Serial number SN-1 is already in use"),
   Str("An asset with this serial number already exists.")}

DuplicateBodies ==
  {Envelope(Str("DUPLICATE_SERIAL"), m, NoDetails) : m \in DuplicateMessages}

\* --------------------------------------------- what the HTTP client rejects with

\* Timeout of the axios instance AssetApi uses, in milliseconds.
ApiTimeoutMs == 10000

\* A rejected request as axios reports it: an Error object flagged isAxiosError,
\* with `response` set when the server answered and `request` set when the
\* request was sent.
AxiosError(message, code, hasRequest, hasResponse, status, data) ==
  [type |-> "axios", message |-> message, code |-> code,
   hasRequest |-> hasRequest, hasResponse |-> hasResponse,
   status |-> status, data |-> data]

\* The server answered with a non-2xx status.
ResponseError(status, data) ==
  AxiosError("Request failed with status code " \o ToString(status),
             "ERR_BAD_RESPONSE", TRUE, TRUE, status, data)

\* The request was sent and no response arrived: the server is unreachable.
NetworkUnreachable == AxiosError("Network Error", "ERR_NETWORK", TRUE, FALSE, 0, NoBody)

\* The request was sent and no response arrived within the instance's timeout.
TimeoutExceeded ==
  AxiosError("timeout of " \o ToString(ApiTimeoutMs) \o "ms exceeded",
             "ECONNABORTED", TRUE, FALSE, 0, NoBody)

\* The request could not be set up: neither request nor response.
SetupErrors ==
  {AxiosError(m, "ERR_INVALID_URL", FALSE, FALSE, 0, NoBody) : m \in {"Invalid URL", ""}}

ResponseErrors ==
  {ResponseError(409, b) : b \in DuplicateBodies}
  \cup {ResponseError(422, Envelope(Str("VALIDATION_ERROR"), Str("Validation failed"), d)) :
          d \in {ObjectDetails,
                 ArrayDetails(<<Item(Str("name is required")), Item(Null)>>),
                 ArrayDetails(<<Item(Str("price must be positive")), NullItem>>)}}
  \cup {ResponseError(404, DetailBody("Asset not found")),
        ResponseError(400, Envelope(Null, Str("Bad input"), NoDetails)),
        ResponseError(500, TextBody("Internal Server Error")),
        ResponseError(503, NoBody)}

\* Every value an AssetApi operation can catch from the HTTP client.
ThrownValues == ResponseErrors \cup {NetworkUnreachable, TimeoutExceeded} \cup SetupErrors

\* ------------------------------------------------------- types/ApiException

ApiException(status, code, message, details) ==
  [isApiException |-> TRUE, name |-> "ApiException",
   status |-> status, code |-> code, message |-> message, details |-> details]

\* ------------------------------------------------- AssetApi.handleApiError

\* The response body where it stands in for missing error details.
BodyAsDetails(data) ==
  CASE data.kind = "none" -> NoDetails
    [] data.kind = "string" -> [kind |-> "string", items |-> <<>>, text |-> data.text]
    [] OTHER -> [kind |-> "body", items |-> <<>>, text |-> ""]

\* data?.error, when data is an object carrying an envelope.
EnvelopeOf(data) == IF data.kind = "object" THEN data.error ELSE <<>>

handleApiError(error) ==
  IF error.hasResponse THEN
    LET status == error.status
        data == error.data
        env == EnvelopeOf(data)
        envMessage == IF env = <<>> THEN Null ELSE env[1].message
        envCode == IF env = <<>> THEN Null ELSE env[1].code
        envDetails == IF env = <<>> THEN NoDetails ELSE env[1].details
        errorMessage ==
          IF Truthy(envMessage) THEN envMessage[1]
          ELSE IF data.kind = "object" /\ Truthy(data.detail) THEN data.detail[1]
          ELSE "An error occurred"
        errorCode ==
          IF Truthy(envCode) THEN envCode[1] ELSE "HTTP_" \o ToString(status)
        errorDetails ==
          IF envDetails.kind # "absent" THEN envDetails ELSE BodyAsDetails(data)
    IN ApiException(status, errorCode, errorMessage, errorDetails)
  ELSE IF error.hasRequest THEN
    ApiException(0, "NETWORK_ERROR", "Network error - unable to reach server", NoDetails)
  ELSE
    ApiException(0, "REQUEST_ERROR",
                 IF error.message # "" THEN error.message ELSE "Request setup error",
                 NoDetails)

\* The catch block every AssetApi operation ends with:
\* catch (error) { throw this.handleApiError(error) }.  Variants: one that
\* takes every response-less failure for a request set-up failure, and one
\* that ignores the envelope's code.
apiCatch_NoNetworkBranch(error) ==
  IF ~error.hasResponse
  THEN ApiException(0, "REQUEST_ERROR",
                    IF error.message # "" THEN error.message ELSE "Request setup error",
                    NoDetails)
  ELSE handleApiError(error)
apiCatch_IgnoresEnvelopeCode(error) ==
  LET x == handleApiError(error)
  IN IF error.hasResponse
     THEN ApiException(x.status, "HTTP_" \o ToString(x.status), x.message, x.details)
     ELSE x
apiCatch(error) == handleApiError(error)

\* ------------------------------------------------- utils/errorHandler.ts

\* Variant: no value is taken for a transport error.
isAxiosError_Never(error) == FALSE
isAxiosError(error) == error.type = "axios"

Formatted(message, code, status, details) ==
  [message |-> message, code |-> code, status |-> status, details |-> details]

\* `error instanceof Error`: axios errors are Error objects too.
isError(error) == error.type \in {"axios", "error"}

\* The test of the connectivity rule: error.message === "Network Error".
\* Variant: the rule never applies.
isNetworkError_Never(error) == FALSE
isNetworkError(error) == error.message = "Network Error"

formatError(error) ==
  IF isAxiosError(error) THEN
    LET status == IF error.hasResponse THEN <<error.status>> ELSE <<>>
        responseData == IF error.hasResponse THEN error.data ELSE NoBody
        env == EnvelopeOf(responseData)
        statusText == IF status # <<>> /\ status[1] # 0 THEN ToString(status[1]) ELSE "ERROR"
        httpCode == "HTTP_" \o (IF status = <<>> THEN "undefined" ELSE ToString(status[1]))
    IN IF env # <<>> THEN
         Formatted(IF Truthy(env[1].message) THEN env[1].message[1] ELSE "An error occurred",
                   IF Truthy(env[1].code) THEN env[1].code ELSE Str(httpCode),
                   status, env[1].details)
       ELSE IF responseData.kind = "string" /\ responseData.text # "" THEN
         Formatted(responseData.text, Str(httpCode), status, NoDetails)
       ELSE IF isNetworkError(error) THEN
         Formatted("Unable to connect to the server. Please check your internet connection.",
                   Str("NETWORK_ERROR"), <<>>, NoDetails)
       ELSE
         Formatted(IF error.message # "" THEN error.message ELSE "An unexpected error occurred",
                   Str("HTTP_" \o statusText), status, NoDetails)
  ELSE IF isError(error) THEN
    Formatted(IF error.message # "" THEN error.message ELSE "An unexpected error occurred",
              Str("APP_ERROR"), <<>>, NoDetails)
  ELSE IF error.type = "string" THEN
    Formatted(error.message, Str("APP_ERROR"), <<>>, NoDetails)
  ELSE
    Formatted("An unexpected error occurred", Str("UNKNOWN_ERROR"), <<>>, NoDetails)

getUserFriendlyErrorMessage(error) ==
  LET status == IF error.status = <<>> THEN 0 ELSE error.status[1]
      code == IF error.code = <<>> THEN "" ELSE error.code[1]
  IN CASE status = 400 ->
            "The request contains invalid data. Please check your input and try again."
       [] status = 401 -> "You need to be logged in to perform this action."
       [] status = 403 -> "You don't have permission to perform this action."
       [] status = 404 -> "The requested resource was not found."
       [] status = 409 ->
            "This operation couldn't be completed due to a conflict with existing data."
       [] status = 422 ->
            "The submitted data is invalid. Please check your input and try again."
       [] status = 429 -> "Too many requests. Please try again later."
       [] status = 500 -> "An internal server error occurred. Please try again later."
       [] status = 503 ->
            "The service is temporarily unavailable. Please try again later."
       [] OTHER ->
            CASE code = "NETWORK_ERROR" ->
                   "Unable to connect to the server. Please check your internet connection."
              [] code = "TIMEOUT_ERROR" -> "The request timed out. Please try again later."
              [] code = "DUPLICATE_SERIAL" ->
                   "An asset with this serial number already exists."
              [] OTHER -> error.message

\* ------------------------------------------------- AssetApi request building

BASE_PATH == "/api/assets"

\* AssetFilters values a caller passes; "" and 0 stand for an absent member
\* (both are falsy, so getAssets omits them either way).
Filters(search, category, status, page, pageSize) ==
  [search |-> search, category |-> category, status |-> status,
   page |-> page, pageSize |-> pageSize]

FilterValues ==
  {Filters("", "Electronics", "", 1, 20), Filters("laptop", "", "active", 2, 0)}

\* The optional `filters` argument: undefined or a filters object.
FilterArgs == {Null} \cup {<<f>> : f \in FilterValues}

RECURSIVE JoinAmp(_)
JoinAmp(ps) ==
  IF ps = <<>> THEN ""
  ELSE IF Len(ps) = 1 THEN ps[1] ELSE ps[1] \o "&" \o JoinAmp(Tail(ps))

\* The URL getAssets requests: only truthy members become query parameters
\* (the modelled values need no percent-encoding).
getAssetsUrl(filters) ==
  LET Param(present, text) == IF present THEN <<text>> ELSE <<>>
      f == IF filters = Null THEN Filters("", "", "", 0, 0) ELSE filters[1]
      params ==
        Param(f.search # "", "search=" \o f.search)
        \o Param(f.category # "", "category=" \o f.category)
        \o Param(f.status # "", "status=" \o f.status)
        \o Param(f.page # 0, "page=" \o ToString(f.page))
        \o Param(f.pageSize # 0, "page_size=" \o ToString(f.pageSize))
      queryString == JoinAmp(params)
  IN IF queryString # "" THEN BASE_PATH \o "?" \o queryString ELSE BASE_PATH

\* ----------------------------------------------------------- the data hooks

FetchHooks == {"useAssets", "useAsset", "useCategories", "useStatuses"}
MutationHooks == {"useCreateAsset", "useUpdateAsset", "useDeleteAsset"}
Hooks == FetchHooks \cup MutationHooks

\* The request an invocation of hook h dispatches through AssetApi.
Request(h, filters, id) ==
  CASE h = "useAssets" -> [method |-> "GET", url |-> getAssetsUrl(filters)]
    [] h = "useAsset" -> [method |-> "GET", url |-> BASE_PATH \o "/" \o ToString(id)]
    [] h = "useCreateAsset" -> [method |-> "POST", url |-> BASE_PATH]
    [] h = "useUpdateAsset" -> [method |-> "PUT", url |-> BASE_PATH \o "/" \o ToString(id)]
    [] h = "useDeleteAsset" ->
         [method |-> "DELETE", url |-> BASE_PATH \o "/" \o ToString(id)]
    [] h = "useCategories" -> [method |-> "GET", url |-> BASE_PATH \o "/categories"]
    [] OTHER -> [method |-> "GET", url |-> BASE_PATH \o "/statuses"]

\* The message a hook stores for a caught value that is no ApiException.
Fallback(h) ==
  CASE h = "useAssets" -> "Failed to fetch assets"
    [] h = "useAsset" -> "Failed to fetch asset"
    [] h = "useCreateAsset" -> "Failed to create asset"
    [] h = "useUpdateAsset" -> "Failed to update asset"
    [] h = "useDeleteAsset" -> "Failed to delete asset"
    [] h = "useCategories" -> "Failed to fetch categories"
    [] OTHER -> "Failed to fetch statuses"

\* The payloads the backend answers a successful request with (opaque to the
\* hooks, which store or return them as received); delete answers 204, no body.
Results(h) == IF h = "useDeleteAsset" THEN {"void"} ELSE {"r1", "r2"}

\* The data a fetching hook holds before any response (useState's initial value).
InitialData == "initial"

\* The state a hook owns, as one record.
HookState(l, e, d) == [loading |-> l, error |-> e, data |-> d]

\* The synchronous prologue of every hook function: setLoading(true); setError(null).
hookStart(st) == [st EXCEPT !.loading = TRUE, !.error = Null]

\* try-branch of a hook function followed by finally: a fetching hook stores the
\* response, a mutation hook only returns it; setLoading(false).
\* (Variant: one that also clears the error.)
hookSuccess_ClearsError(h, st, response) ==
  IF h \in FetchHooks
  THEN [st EXCEPT !.data = response, !.loading = FALSE, !.error = Null]
  ELSE [st EXCEPT !.loading = FALSE, !.error = Null]
hookSuccess(h, st, response) ==
  IF h \in FetchHooks
  THEN [st EXCEPT !.data = response, !.loading = FALSE]
  ELSE [st EXCEPT !.loading = FALSE]

\* What a mutation function resolves to on success.
successValue(h, response) == IF h = "useDeleteAsset" THEN "true" ELSE response

\* What a mutation function resolves to from its catch block.
failureValue(h) == IF h = "useDeleteAsset" THEN "false" ELSE "null"

\* The catch block of a hook function for the caught value err: the error
\* string it stores, or threw = TRUE when the block itself throws (d.msg on a
\* null item of err.details, in the create and update hooks).
\* (Variant: one that stores the hook's fallback string for every failure.)
hookCatch_AlwaysFallback(h, err) == [threw |-> FALSE, error |-> Str(Fallback(h))]
hookCatch(h, err) ==
  IF ~err.isApiException THEN [threw |-> FALSE, error |-> Str(Fallback(h))]
  ELSE IF h \in {"useCreateAsset", "useUpdateAsset"} /\ err.details.kind = "array" THEN
    IF \E i \in 1..Len(err.details.items) : err.details.items[i].isNull
    THEN [threw |-> TRUE, error |-> Null]
    ELSE LET messages ==
               JoinComma([i \in 1..Len(err.details.items) |-> err.details.items[i].msg])
         IN [threw |-> FALSE, error |-> Str(err.message \o ": " \o messages)]
  ELSE [threw |-> FALSE, error |-> Str(err.message)]

\* catch-branch followed by finally: the error is stored unless the catch block
\* threw before setError; data is not touched; setLoading(false).
\* (Variant: one that resets the data on failure.)
hookFailure_ClearsData(h, st, err) ==
  LET c == hookCatch(h, err)
  IN [st EXCEPT !.error = IF c.threw THEN st.error ELSE c.error,
                !.data = InitialData,
                !.loading = FALSE]
hookFailure(h, st, err) ==
  LET c == hookCatch(h, err)
  IN [st EXCEPT !.error = IF c.threw THEN st.error ELSE c.error,
                !.loading = FALSE]

\* ------------------------------------------------------------ state machine

VARIABLES
  hook,         \* which hook this instance is
  assetId,      \* the id the component passes (useAsset, update, delete)
  mounted,      \* the component's first render and its effects have run
  filtersProp,  \* useAssets: the initialFilters argument of the latest render
  loading,      \* the hook's loading flag
  error,        \* the hook's error: Null or a string
  data,         \* a fetching hook's data
  returned,     \* what the latest settled mutation call resolved or rejected with
  inflight,     \* invocations whose request has not settled
  nextSeq,      \* number of the next invocation, in initiation order
  resolved,     \* settled invocations: [seq, ok, result]
  lastRequest,  \* the request most recently dispatched
  lastEvent     \* the step taken last

vars == <<hook, assetId, mounted, filtersProp, loading, error, data, returned,
          inflight, nextSeq, resolved, lastRequest, lastEvent>>

NotReturned == [kind |-> "none", value |-> ""]
Resolved(v) == [kind |-> "resolved", value |-> v]
Rejected(v) == [kind |-> "rejected", value |-> v]

Event(kind, seq, arg, result, thrown, exc, alone) ==
  [kind |-> kind, seq |-> seq, arg |-> arg, result |-> result,
   thrown |-> thrown, exc |-> exc, alone |-> alone]

Init ==
  /\ hook \in Hooks
  /\ assetId \in (IF hook = "useAsset" THEN {0, 1} ELSE {1})
  /\ mounted = FALSE
  /\ filtersProp \in (IF hook = "useAssets" THEN FilterArgs ELSE {Null})
  /\ loading = FALSE
  /\ error = Null
  /\ data = InitialData
  /\ returned = NotReturned
  /\ inflight = {}
  /\ nextSeq = 1
  /\ resolved = {}
  /\ lastRequest = <<>>
  /\ lastEvent = Event("none", 0, Null, "", <<>>, <<>>, FALSE)

\* One call of the hook's function (fetchAssets, fetchAsset, createAsset, ...)
\* up to its await: the prologue runs and the request is dispatched.
Invoke(kind, arg) ==
  LET st == hookStart(HookState(loading, error, data))
  IN /\ nextSeq <= MaxInvocations
     /\ loading' = st.loading
     /\ error' = st.error
     /\ data' = st.data
     /\ inflight' = inflight \cup {[seq |-> nextSeq, arg |-> arg]}
     /\ nextSeq' = nextSeq + 1
     /\ lastRequest' = <<Request(hook, arg, assetId)>>
     /\ lastEvent' = Event(kind, nextSeq, arg, "", <<>>, <<>>, inflight = {})
     /\ UNCHANGED <<hook, assetId, returned, resolved>>

\* First render: the fetching hooks' effect runs their fetch (useAsset only
\* for a truthy id); the mutation hooks dispatch nothing.
Mount ==
  /\ ~mounted
  /\ mounted' = TRUE
  /\ UNCHANGED filtersProp
  /\ IF hook \in FetchHooks /\ (hook = "useAsset" => assetId # 0)
     THEN Invoke("mount", filtersProp)
     ELSE /\ lastEvent' = Event("mount", 0, Null, "", <<>>, <<>>, FALSE)
          /\ UNCHANGED <<hook, assetId, loading, error, data, returned, inflight,
                         nextSeq, resolved, lastRequest>>

\* A re-render passes useAssets a filters argument of a new identity (its
\* value may equal the previous one): the effect runs fetchAssets with it.
ChangeFilters(f) ==
  /\ mounted
  /\ hook = "useAssets"
  /\ filtersProp' = f
  /\ UNCHANGED mounted
  /\ Invoke("filters", f)

\* The caller invokes refetch: fetchAssets(filters?) for useAssets, the
\* argumentless fetch function for the other fetching hooks.
Refetch(arg) ==
  /\ mounted
  /\ hook \in FetchHooks
  /\ hook # "useAssets" => arg = Null
  /\ UNCHANGED <<mounted, filtersProp>>
  /\ Invoke("refetch", arg)

\* The caller invokes createAsset / updateAsset / deleteAsset.
Mutate ==
  /\ mounted
  /\ hook \in MutationHooks
  /\ UNCHANGED <<mounted, filtersProp>>
  /\ Invoke("mutate", Null)

\* The request of invocation inv succeeds with payload response: the hook
\* function resumes after its await, runs the try branch and finally.
\* (Variant: request sequencing, where only the invocation initiated last may
\* store its response.)
storeOnSuccess_Sequenced(inv, response) ==
  IF inv.seq = nextSeq - 1
  THEN hookSuccess(hook, HookState(loading, error, data), response)
  ELSE HookState(FALSE, error, data)
storeOnSuccess(inv, response) ==
  hookSuccess(hook, HookState(loading, error, data), response)

ResolveOk(inv, response) ==
  LET st == storeOnSuccess(inv, response)
  IN /\ inv \in inflight
     /\ loading' = st.loading
     /\ error' = st.error
     /\ data' = st.data
     /\ returned' = IF hook \in MutationHooks
                    THEN Resolved(successValue(hook, response)) ELSE returned
     /\ inflight' = inflight \ {inv}
     /\ resolved' = resolved \cup {[seq |-> inv.seq, ok |-> TRUE, result |-> response]}
     /\ lastEvent' = Event("ok", inv.seq, inv.arg, response, <<>>, <<>>,
                           loading /\ inflight = {inv})
     /\ UNCHANGED <<hook, assetId, mounted, filtersProp, nextSeq, lastRequest>>

\* The request of invocation inv fails with thrown: AssetApi rethrows it as
\* handleApiError(thrown); the hook function runs its catch branch and finally.
ResolveFail(inv, thrown) ==
  LET err == apiCatch(thrown)
      c == hookCatch(hook, err)
      st == hookFailure(hook, HookState(loading, error, data), err)
  IN /\ inv \in inflight
     /\ loading' = st.loading
     /\ error' = st.error
     /\ data' = st.data
     /\ returned' = IF hook \in FetchHooks THEN returned
                    ELSE IF c.threw THEN Rejected("TypeError")
                    ELSE Resolved(failureValue(hook))
     /\ inflight' = inflight \ {inv}
     /\ resolved' = resolved \cup {[seq |-> inv.seq, ok |-> FALSE, result |-> ""]}
     /\ lastEvent' = Event("fail", inv.seq, inv.arg, "", <<thrown>>, <<err>>,
                           loading /\ inflight = {inv})
     /\ UNCHANGED <<hook, assetId, mounted, filtersProp, nextSeq, lastRequest>>

\* ------------------------------------- the state of the other components

\* utils/errorHandler, as a caller uses it: the value handed to formatError,
\* the ApiError it returned, the sentence getUserFriendlyErrorMessage made of
\* that, and what formatError returned when handed that ApiError.
VARIABLES fmtInput, fmtOutput, fmtFriendly, fmtAgain

\* A caller of AssetApi with a create payload: the payload, what
\* validateAssetData returned for it, how often createAsset was called with
\* it, and the requests that went out.
VARIABLES payload, validationErrors, createCalls, apiRequests

\* One AssetForm: the asset prop, the formData, errors and touched states, the
\* clock's current day, the number of change and blur events so far, the
\* handler that ran last, and what the last handleSubmit passed to onSubmit.
VARIABLES formAsset, formData, formErrors, touched, formNow, formEvents, formStep, submitted

\* The ToastProvider: the toasts state, the number of ids generated so far,
\* and the call made last with what it returned.
VARIABLES toasts, issued, toastStep

\* One Toast component shown by the ToastContainer: its isExiting and isPaused
\* states, the time left on its two timers (Null when none is pending), the
\* time since its countdown was last started, and the step taken last.
VARIABLES isExiting, isPaused, timer, animationTimer, sinceStart, viewStep

\* utils/globalErrorHandler and the window: the module's showErrorToast, the
\* listeners the window holds for "error" and for "unhandledrejection", the
\* events dispatched so far with the toasts each one produced, and the
\* messages of the error toasts shown.
VARIABLES showErrorToast, errorListeners, rejectionListeners, windowEvents, globalToasts

\* A component showing the asset list through useAssets: how it passes the
\* filters, whether it is mounted, AssetList's filters state, the hook's
\* loading, error and data states, the number of list requests in flight, and
\* the step taken last with the requests it issued.
VARIABLES listUsage, listMounted, listFilters, listLoading, listError, listData, listPending, listStep

\* The asset detail page: the route's id, useAsset's asset, loading and error
\* states, the dialog state, useDeleteAsset's error with the deleteError the
\* pending handleConfirmDelete saw when it was called, where the router is,
\* the toasts shown, and the step taken last.
VARIABLES detailId, detailAsset, detailLoading, detailError, showDeleteDialog, deleteError, deletePending, location, detailToasts, detailStep

\* SearchFilter inside AssetList: the searchTerm state, useDebounce's value and
\* the value its pending timer will deliver (Null when none is pending), the
\* filters AssetList holds and passes down, and the step taken last with the
\* filter updates it emitted and the search term the user has cleared since
\* they last typed.
VARIABLES searchTerm, debouncedSearchTerm, debounceTimer, searchFilters, searchStep

\* No hook is in use: the state the hook instance has in the runs of the other
\* components.
HooksIdle == Init /\ hook = "useAssets" /\ assetId = 1 /\ filtersProp = Null

fmtVars == <<fmtInput, fmtOutput, fmtFriendly, fmtAgain>>
FormatIdle ==
  fmtInput = Null /\ fmtOutput = Null /\ fmtFriendly = Null /\ fmtAgain = Null

valVars == <<payload, validationErrors, createCalls, apiRequests>>
ValidateIdle ==
  payload = Null /\ validationErrors = Null /\ createCalls = 0 /\ apiRequests = <<>>

formVars == <<formAsset, formData, formErrors, touched, formNow, formEvents, formStep, submitted>>
FormIdle ==
  formAsset = Null /\ formData = Null /\ formErrors = Null /\ touched = {} /\ formNow = 0 /\ formEvents = 0 /\ formStep = "none" /\ submitted = Null

toastVars == <<toasts, issued, toastStep>>
ToastIdle ==
  toasts = <<>> /\ issued = 0 /\ toastStep = Null

expiryVars == <<isExiting, isPaused, timer, animationTimer, sinceStart, viewStep>>
ExpiryIdle ==
  isExiting = FALSE /\ isPaused = FALSE /\ timer = Null /\ animationTimer = Null /\ sinceStart = 0 /\ viewStep = "none"

globalVars == <<showErrorToast, errorListeners, rejectionListeners, windowEvents, globalToasts>>
GlobalIdle ==
  showErrorToast = Null /\ errorListeners = 0 /\ rejectionListeners = 0 /\ windowEvents = <<>> /\ globalToasts = <<>>

listVars == <<listUsage, listMounted, listFilters, listLoading, listError, listData, listPending, listStep>>
ListIdle ==
  listUsage = "none" /\ listMounted = FALSE /\ listFilters = Null /\ listLoading = FALSE /\ listError = Null /\ listData = Null /\ listPending = 0 /\ listStep = Null

detailVars == <<detailId, detailAsset, detailLoading, detailError, showDeleteDialog, deleteError, deletePending, location, detailToasts, detailStep>>
DetailIdle ==
  detailId = 0 /\ detailAsset = Null /\ detailLoading = FALSE /\ detailError = Null /\ showDeleteDialog = FALSE /\ deleteError = Null /\ deletePending = Null /\ location = "none" /\ detailToasts = <<>> /\ detailStep = Null

searchVars == <<searchTerm, debouncedSearchTerm, debounceTimer, searchFilters, searchStep>>
SearchIdle ==
  searchTerm = "" /\ debouncedSearchTerm = "" /\ debounceTimer = Null /\ searchFilters = Null /\ searchStep = Null

allVars == <<vars, fmtVars, valVars, formVars, toastVars, expiryVars, globalVars, listVars, detailVars, searchVars>>

\* Each component runs on its own: while one runs the others stay as they
\* start.
HooksFrame == UNCHANGED <<fmtVars, valVars, formVars, toastVars, expiryVars, globalVars, listVars, detailVars, searchVars>>
HooksInit == Init /\ FormatIdle /\ ValidateIdle /\ FormIdle /\ ToastIdle /\ ExpiryIdle /\ GlobalIdle /\ ListIdle /\ DetailIdle /\ SearchIdle
FormatFrame == UNCHANGED <<vars, valVars, formVars, toastVars, expiryVars, globalVars, listVars, detailVars, searchVars>>
FormatRest == HooksIdle /\ ValidateIdle /\ FormIdle /\ ToastIdle /\ ExpiryIdle /\ GlobalIdle /\ ListIdle /\ DetailIdle /\ SearchIdle
ValidateFrame == UNCHANGED <<vars, fmtVars, formVars, toastVars, expiryVars, globalVars, listVars, detailVars, searchVars>>
ValidateRest == HooksIdle /\ FormatIdle /\ FormIdle /\ ToastIdle /\ ExpiryIdle /\ GlobalIdle /\ ListIdle /\ DetailIdle /\ SearchIdle
FormFrame == UNCHANGED <<vars, fmtVars, valVars, toastVars, expiryVars, globalVars, listVars, detailVars, searchVars>>
FormRest == HooksIdle /\ FormatIdle /\ ValidateIdle /\ ToastIdle /\ ExpiryIdle /\ GlobalIdle /\ ListIdle /\ DetailIdle /\ SearchIdle
ToastFrame == UNCHANGED <<vars, fmtVars, valVars, formVars, expiryVars, globalVars, listVars, detailVars, searchVars>>
ToastRest == HooksIdle /\ FormatIdle /\ ValidateIdle /\ FormIdle /\ ExpiryIdle /\ GlobalIdle /\ ListIdle /\ DetailIdle /\ SearchIdle
ExpiryFrame == UNCHANGED <<vars, fmtVars, valVars, formVars, globalVars, listVars, detailVars, searchVars>>
ExpiryRest == HooksIdle /\ FormatIdle /\ ValidateIdle /\ FormIdle /\ GlobalIdle /\ ListIdle /\ DetailIdle /\ SearchIdle
GlobalFrame == UNCHANGED <<vars, fmtVars, valVars, formVars, toastVars, expiryVars, listVars, detailVars, searchVars>>
GlobalRest == HooksIdle /\ FormatIdle /\ ValidateIdle /\ FormIdle /\ ToastIdle /\ ExpiryIdle /\ ListIdle /\ DetailIdle /\ SearchIdle
ListFrame == UNCHANGED <<vars, fmtVars, valVars, formVars, toastVars, expiryVars, globalVars, detailVars, searchVars>>
ListRest == HooksIdle /\ FormatIdle /\ ValidateIdle /\ FormIdle /\ ToastIdle /\ ExpiryIdle /\ GlobalIdle /\ DetailIdle /\ SearchIdle
DetailFrame == UNCHANGED <<vars, fmtVars, valVars, formVars, toastVars, expiryVars, globalVars, listVars, searchVars>>
DetailRest == HooksIdle /\ FormatIdle /\ ValidateIdle /\ FormIdle /\ ToastIdle /\ ExpiryIdle /\ GlobalIdle /\ ListIdle /\ SearchIdle
SearchFrame == UNCHANGED <<vars, fmtVars, valVars, formVars, toastVars, expiryVars, globalVars, listVars, detailVars>>
SearchRest == HooksIdle /\ FormatIdle /\ ValidateIdle /\ FormIdle /\ ToastIdle /\ ExpiryIdle /\ GlobalIdle /\ ListIdle /\ DetailIdle

\* ------------------------------------------------ one hook instance's run

Next ==
  \/ Mount /\ HooksFrame
  \/ \E f \in FilterArgs : ChangeFilters(f) /\ HooksFrame
  \/ \E arg \in FilterArgs : Refetch(arg) /\ HooksFrame
  \/ Mutate /\ HooksFrame
  \/ \E inv \in inflight, response \in Results(hook) :
        ResolveOk(inv, response) /\ HooksFrame
  \/ \E inv \in inflight, thrown \in ThrownValues :
        ResolveFail(inv, thrown) /\ HooksFrame

Spec == HooksInit /\ [][Next]_allVars

\* ------------------------------------------------------------------ claims

StartKinds == {"mount", "filters", "refetch", "mutate"}

\* The last step dispatched a request.
Started == lastEvent.kind \in StartKinds /\ lastEvent.seq # 0
\* The last step settled an invocation, successfully or not.
Succeeded == lastEvent.kind = "ok"
Failed == lastEvent.kind = "fail"
\* What the failed request threw, and what AssetApi rethrew for it.
Thrown == lastEvent.thrown[1]
Rethrown == lastEvent.exc[1]

\* C1: from loading=false, error=null, a single non-overlapping invocation of
\* any data hook first sets loading=true and error=null, and when the request
\* settles ends either in success (loading=false, error=null, data=result) or
\* in failure (loading=false, error a non-null string).
C1_InvocationCycle ==
  /\ (Started /\ lastEvent.alone) => (loading /\ error = Null)
  /\ (Succeeded /\ lastEvent.alone) =>
       /\ ~loading
       /\ error = Null
       /\ hook \in FetchHooks => data = lastEvent.result
       /\ hook \in MutationHooks =>
            returned = Resolved(successValue(hook, lastEvent.result))
  /\ (Failed /\ lastEvent.alone) => (~loading /\ error # Null)

\* C2, as claimed: in any interleaving, immediately after an invocation
\* resolves successfully the hook's error is null.
C2_ErrorNullAfterSuccess == Succeeded => error = Null

\* C2, amended: a successful resolution leaves the error as it was just before
\* it, and the error is null after the success of an invocation that did not
\* overlap with another one.
C2_SuccessKeepsError ==
  /\ [][lastEvent'.kind = "ok" => error' = error]_vars
  /\ []((Succeeded /\ lastEvent.alone) => error = Null)

\* C2 witness: a success has just resolved and the error, set by an
\* overlapping invocation that failed before it, is still there.
C2_Witness == Succeeded /\ error # Null /\ ~lastEvent.alone

\* C3: a failing invocation of a fetching hook leaves the hook's data as it
\* was: neither its start nor its failure writes data.
C3_FailureKeepsData ==
  [][(hook \in FetchHooks /\ lastEvent'.kind \in StartKinds \cup {"fail"})
       => data' = data]_vars

\* C3 witness: a fetch has just failed while the hook holds data of an earlier
\* successful fetch.
C3_Witness ==
  /\ hook \in FetchHooks
  /\ Failed
  /\ error # Null
  /\ data \in Results(hook)

\* C4: createAsset, updateAsset and deleteAsset never reject: they resolve to
\* the entity (true for delete) on success, and on failure to null (false for
\* delete) with the hook's error set to a non-null string.
C4_MutationsNeverReject ==
  hook \in MutationHooks =>
    /\ returned.kind # "rejected"
    /\ Succeeded => returned = Resolved(successValue(hook, lastEvent.result))
    /\ Failed => (returned = Resolved(failureValue(hook)) /\ error # Null)

\* C5: no request sequencing: every successful resolution stores its response,
\* whatever the order of initiation, and nothing else writes data; so the data
\* is the result of the successful invocation that resolved last.
C5_LastResolutionWins ==
  [][(hook \in FetchHooks) =>
       (IF lastEvent'.kind = "ok" THEN data' = lastEvent'.result ELSE data' = data)]_vars

\* C5 witness: two overlapping invocations both succeeded with different
\* results, the one initiated first resolved last, and its result is the data.
C5_Witness ==
  /\ hook \in FetchHooks
  /\ inflight = {}
  /\ Succeeded
  /\ data = lastEvent.result
  /\ \E r \in resolved : r.ok /\ r.seq > lastEvent.seq /\ r.result # lastEvent.result

\* C6: useAssets requests the list on mount and on every change of identity of
\* its filters argument, with that argument; refetch(filters) requests with the
\* given filters, and a refetch() that follows it requests with them again.
C6_RefetchRemembersFilters ==
  [][(hook = "useAssets") =>
       /\ lastEvent'.kind \in {"mount", "filters"} =>
            lastRequest' = <<Request(hook, filtersProp', assetId)>>
       /\ (lastEvent'.kind = "refetch" /\ lastEvent'.arg # Null) =>
            lastRequest' = <<Request(hook, lastEvent'.arg, assetId)>>
       /\ (lastEvent'.kind = "refetch" /\ lastEvent'.arg = Null
           /\ lastEvent.kind = "refetch" /\ lastEvent.arg # Null) =>
            lastRequest' = <<Request(hook, lastEvent.arg, assetId)>>]_vars

\* The backend answered 409 with {error: {code: "DUPLICATE_SERIAL", message: m}}.
IsDuplicateSerial(e) == e.hasResponse /\ e.status = 409 /\ e.data \in DuplicateBodies

\* C7, as claimed: on such an answer to create, AssetApi throws an ApiException
\* with status 409 and code DUPLICATE_SERIAL and the create hook's error
\* contains "serial number already exists.", for every m.
C7_DuplicateMapped ==
  (hook = "useCreateAsset" /\ Failed /\ IsDuplicateSerial(Thrown)) =>
    /\ Rethrown.isApiException
    /\ Rethrown.status = 409
    /\ Rethrown.code = "DUPLICATE_SERIAL"
    /\ error # Null
    /\ Contains(error[1], "serial number already exists.")

\* C7, amended: the exception is as claimed, and the create hook's error is the
\* backend's message m itself, or "An error occurred" when m is empty.
C7_DuplicateRaw ==
  (hook = "useCreateAsset" /\ Failed /\ IsDuplicateSerial(Thrown)) =>
    LET m == Thrown.data.error[1].message
    IN /\ Rethrown.isApiException
       /\ Rethrown.status = 409
       /\ Rethrown.code = "DUPLICATE_SERIAL"
       /\ error = Str(IF Truthy(m) THEN m[1] ELSE "An error occurred")

\* C7 witness: a create has just failed on a duplicate serial number whose
\* backend message does not contain the curated sentence.
C7_Witness ==
  /\ hook = "useCreateAsset"
  /\ Failed
  /\ IsDuplicateSerial(Thrown)
  /\ error # Null
  /\ ~Contains(error[1], "serial number already exists.")

\* The sentence getUserFriendlyErrorMessage gives for code NETWORK_ERROR.
NetworkUserMessage ==
  getUserFriendlyErrorMessage(Formatted("", Str("NETWORK_ERROR"), <<0>>, NoDetails))

\* C8, as claimed: with the network unreachable every AssetApi operation
\* rejects with an ApiException of status 0 and code NETWORK_ERROR, and the
\* hook's error is the sentence getUserFriendlyErrorMessage gives for that code.
C8_NetworkMapped ==
  (Failed /\ Thrown = NetworkUnreachable) =>
    /\ Rethrown.isApiException
    /\ Rethrown.status = 0
    /\ Rethrown.code = "NETWORK_ERROR"
    /\ error = Str(NetworkUserMessage)

\* C8, amended: the exception is as claimed, and the hook's error is the
\* exception's own message, "Network error - unable to reach server".
C8_NetworkRaw ==
  (Failed /\ Thrown = NetworkUnreachable) =>
    /\ Rethrown.isApiException
    /\ Rethrown.status = 0
    /\ Rethrown.code = "NETWORK_ERROR"
    /\ error = Str("Network error - unable to reach server")

\* C8 witness: a request has just failed with the network unreachable and the
\* hook's error is not the error formatter's sentence.
C8_Witness ==
  /\ Failed
  /\ Thrown = NetworkUnreachable
  /\ error # Str(NetworkUserMessage)

\* For C9: the members of the response's error envelope, where present.
EnvMember(e, member) ==
  IF EnvelopeOf(e.data) = <<>> THEN Null
  ELSE IF member = "code" THEN EnvelopeOf(e.data)[1].code
  ELSE EnvelopeOf(e.data)[1].message
EnvDetails(e) ==
  IF EnvelopeOf(e.data) = <<>> THEN NoDetails ELSE EnvelopeOf(e.data)[1].details

C10_TimeoutClassified ==
  (Failed /\ Thrown = TimeoutExceeded) =>
    /\ formatError(Thrown).code = Str("TIMEOUT_ERROR")
    /\ getUserFriendlyErrorMessage(formatError(Thrown))
         = "The request timed out. Please try again later."
    /\ Rethrown.code = "TIMEOUT_ERROR"
    /\ Rethrown.code # handleApiError(NetworkUnreachable).code

\* =================================================== utils/errorHandler alone

\* Timeout of the axios instance utils/apiClient creates, in milliseconds.
ClientTimeoutMs == 15000

ClientTimeoutExceeded ==
  AxiosError("timeout of " \o ToString(ClientTimeoutMs) \o "ms exceeded",
             "ECONNABORTED", TRUE, FALSE, 0, NoBody)

\* A value that is not an axios error: an Error object ("error"), a string
\* ("string", `message` holding the string itself), or something else (null,
\* undefined, a number, a plain object).
JsValue(type, message) ==
  [type |-> type, message |-> message, code |-> "",
   hasRequest |-> FALSE, hasResponse |-> FALSE, status |-> 0, data |-> NoBody]
JsError(message) == JsValue("error", message)
JsString(s) == JsValue("string", s)

\* Values that are neither Error objects nor strings; the last one is a plain
\* object with a `message` member, such as an ApiError formatError returned.
OtherValues ==
  {JsValue(t, "") : t \in {"null", "undefined", "number", "object"}}
  \cup {JsValue("object", "Asset not found")}

\* Statuses a response can carry: those getUserFriendlyErrorMessage has a
\* sentence for, and two it has none for.
FormatStatuses == {400, 401, 403, 404, 409, 418, 422, 429, 500, 502, 503}

\* Response bodies: none, an empty or non-empty string, an object without an
\* envelope, and envelopes with each member present, empty or missing.
FormatBodies ==
  {NoBody, TextBody(""), TextBody("Service unavailable"), DetailBody("Asset not found")}
  \cup {Envelope(c, m, d) :
          c \in {Null, Str(""), Str("DUPLICATE_SERIAL"), Str("TIMEOUT_ERROR"),
                 Str("NETWORK_ERROR"), Str("VALIDATION_ERROR")},
          m \in {Null, Str(""), Str("Something failed")},
          d \in {NoDetails, ObjectDetails}}

\* Everything formatError is handed: what axios rejects with, Error objects,
\* strings and other values.
FormatInputs ==
  ThrownValues
  \cup {ClientTimeoutExceeded}
  \cup {ResponseError(s, b) : s \in FormatStatuses, b \in FormatBodies}
  \cup {JsError(m) : m \in {"", "Asset not found", "Network Error"}}
  \cup {JsString(t) : t \in {"", "Something went wrong"}}
  \cup OtherValues

FormatInit ==
  /\ fmtInput \in {<<x>> : x \in FormatInputs}
  /\ fmtOutput = Null
  /\ fmtFriendly = Null
  /\ fmtAgain = Null
  /\ FormatRest

\* const formattedError = formatError(error)
FormatError ==
  /\ fmtOutput = Null
  /\ fmtOutput' = <<formatError(fmtInput[1])>>
  /\ UNCHANGED <<fmtInput, fmtFriendly, fmtAgain>>
  /\ FormatFrame

\* const message = getUserFriendlyErrorMessage(formattedError)
UserMessage ==
  /\ fmtOutput # Null
  /\ fmtFriendly = Null
  /\ fmtFriendly' = <<getUserFriendlyErrorMessage(fmtOutput[1])>>
  /\ UNCHANGED <<fmtInput, fmtOutput, fmtAgain>>
  /\ FormatFrame

\* An ApiError as a value handed on: a plain object carrying the ApiError's
\* members, neither an axios error nor an Error object nor a string.
AsThrown(apiError) ==
  [type |-> "object", message |-> apiError.message,
   code |-> IF apiError.code = Null THEN "" ELSE apiError.code[1],
   hasRequest |-> FALSE, hasResponse |-> FALSE,
   status |-> IF apiError.status = Null THEN 0 ELSE apiError.status[1],
   data |-> NoBody]

\* showError(formattedError), handleGlobalError's showErrorToast(formattedError)
\* and a caller catching the interceptor's rejection: formatError is applied
\* to the ApiError an earlier formatError returned.
FormatAgain ==
  /\ fmtOutput # Null
  /\ fmtAgain = Null
  /\ fmtAgain' = <<formatError(AsThrown(fmtOutput[1]))>>
  /\ UNCHANGED <<fmtInput, fmtOutput, fmtFriendly>>
  /\ FormatFrame

FormatNext == FormatError \/ UserMessage \/ FormatAgain

SpecFormat == FormatInit /\ [][FormatNext]_allVars

\* For C11-C13: what was formatted and what came out of it.
FormatDone == fmtOutput # Null
FmtIn == fmtInput[1]
FmtOut == fmtOutput[1]

\* The input is a transport error whose response payload is an error envelope,
\* or a non-empty plain string.
HasEnvelope(x) == x.type = "axios" /\ x.hasResponse /\ EnvelopeOf(x.data) # <<>>
HasTextPayload(x) ==
  x.type = "axios" /\ x.hasResponse /\ x.data.kind = "string" /\ x.data.text # ""
HttpCode(x) == Str("HTTP_" \o ToString(x.status))

NoResponse(x) == x.type = "axios" /\ ~x.hasResponse

\* C12, as claimed: for every transport error for which no response was
\* received, formatError returns code NETWORK_ERROR with the 'Unable to connect
\* to the server' message.
C12_NoResponseIsNetwork ==
  (FormatDone /\ NoResponse(FmtIn)) =>
    /\ FmtOut.code = Str("NETWORK_ERROR")
    /\ FmtOut.message = NetworkUserMessage

\* C12, amended: a transport error without response is classified
\* NETWORK_ERROR, with that message, exactly when its own message is "Network
\* Error"; with any other message (a timeout, a request that could not be set
\* up) it keeps its message and gets code HTTP_ERROR.
C12_NetworkErrorIsNetwork ==
  (FormatDone /\ NoResponse(FmtIn)) =>
    IF FmtIn.message = "Network Error"
    THEN /\ FmtOut.code = Str("NETWORK_ERROR")
         /\ FmtOut.message = NetworkUserMessage
         /\ FmtOut.status = <<>>
    ELSE /\ FmtOut.code = Str("HTTP_ERROR")
         /\ FmtOut.message = (IF FmtIn.message # "" THEN FmtIn.message
                              ELSE "An unexpected error occurred")

\* A connection failure has been formatted.
C12_Witness ==
  FormatDone /\ FmtIn = NetworkUnreachable /\ FmtOut.code = Str("NETWORK_ERROR")

\* For C13: the curated sentences, by status and by code.
CuratedStatuses == {400, 401, 403, 404, 409, 422, 429, 500, 503}
CuratedCodes == {"NETWORK_ERROR", "TIMEOUT_ERROR", "DUPLICATE_SERIAL"}
StatusSentence(status) ==
  CASE status = 400 ->
         "The request contains invalid data. Please check your input and try again."
    [] status = 401 -> "You need to be logged in to perform this action."
    [] status = 403 -> "You don't have permission to perform this action."
    [] status = 404 -> "The requested resource was not found."
    [] status = 409 ->
         "This operation couldn't be completed due to a conflict with existing data."
    [] status = 422 ->
         "The submitted data is invalid. Please check your input and try again."
    [] status = 429 -> "Too many requests. Please try again later."
    [] status = 500 -> "An internal server error occurred. Please try again later."
    [] status = 503 -> "The service is temporarily unavailable. Please try again later."
CodeSentence(code) ==
  CASE code = "NETWORK_ERROR" ->
         "Unable to connect to the server. Please check your internet connection."
    [] code = "TIMEOUT_ERROR" -> "The request timed out. Please try again later."
    [] code = "DUPLICATE_SERIAL" -> "An asset with this serial number already exists."

HasCuratedStatus(e) == e.status # <<>> /\ e.status[1] \in CuratedStatuses
HasCuratedCode(e) == e.code # <<>> /\ e.code[1] \in CuratedCodes

\* C13: getUserFriendlyErrorMessage returns the status sentence for every
\* formatted error with a status among 400, 401, 403, 404, 409, 422, 429, 500,
\* 503, the code sentence for every formatted error with code NETWORK_ERROR,
\* TIMEOUT_ERROR or DUPLICATE_SERIAL whatever its status, and the error's
\* message otherwise.
C13_CuratedSentences ==
  fmtFriendly # Null =>
    /\ HasCuratedStatus(FmtOut) => fmtFriendly[1] = StatusSentence(FmtOut.status[1])
    /\ HasCuratedCode(FmtOut) => fmtFriendly[1] = CodeSentence(FmtOut.code[1])
    /\ (~HasCuratedStatus(FmtOut) /\ ~HasCuratedCode(FmtOut)) =>
         fmtFriendly[1] = FmtOut.message

\* ================================== AssetApi.validateAssetData and createAsset

\* String.prototype.trim, over strings whose only whitespace is the space.
RECURSIVE TrimStart(_)
TrimStart(s) ==
  IF Len(s) > 0 /\ SubSeq(s, 1, 1) = " " THEN TrimStart(SubSeq(s, 2, Len(s))) ELSE s
RECURSIVE TrimEnd(_)
TrimEnd(s) ==
  IF Len(s) > 0 /\ SubSeq(s, Len(s), Len(s)) = " "
  THEN TrimEnd(SubSeq(s, 1, Len(s) - 1)) ELSE s
Trim(s) == TrimEnd(TrimStart(s))

\* A price as a JavaScript number, in cents; NaN is a number too.
Price(cents) == <<[nan |-> FALSE, cents |-> cents]>>
NaNPrice == <<[nan |-> TRUE, cents |-> 0]>>

\* A create/update payload as it exists at run time: every member may be
\* missing (Null stands for undefined).
AssetData(name, category, serialNumber, purchaseDate, purchasePrice, status) ==
  [name |-> name, category |-> category, serialNumber |-> serialNumber,
   purchaseDate |-> purchaseDate, purchasePrice |-> purchasePrice, status |-> status]

Payloads ==
  {AssetData(n, c, s, d, p, st) :
     n \in {Null, Str(""), Str("  "), Str("Laptop")},
     c \in {Null, Str(""), Str("Electronics")},
     s \in {Null, Str(" "), Str("SN-1")},
     d \in {Null, Str(""), Str(" "), Str("2024-01-15")},
     p \in {Null, NaNPrice, Price(-500), Price(0), Price(1), Price(129999)},
     st \in {Null, Str(""), Str("active")}}

\* if (!value?.trim()) errors.push(message).  Variant: the check never fails.
requiredTrimmed_Never(value, message) == <<>>
requiredTrimmed(value, message) ==
  IF value = Null \/ Trim(value[1]) = "" THEN <<message>> ELSE <<>>

\* if (!value) errors.push(message)
requiredTruthy(value, message) == IF ~Truthy(value) THEN <<message>> ELSE <<>>

\* if (asset.purchasePrice <= 0) errors.push(...): undefined and NaN compare
\* false with every number.
positivePrice(price) ==
  IF price # Null /\ ~price[1].nan /\ price[1].cents <= 0
  THEN <<"Purchase price must be greater than 0">> ELSE <<>>

validateAssetData(asset) ==
  requiredTrimmed(asset.name, "Asset name is required")
  \o requiredTrimmed(asset.category, "Category is required")
  \o requiredTrimmed(asset.serialNumber, "Serial number is required")
  \o requiredTruthy(asset.purchaseDate, "Purchase date is required")
  \o positivePrice(asset.purchasePrice)
  \o requiredTruthy(asset.status, "Status is required")

\* How often a caller calls create with one payload.
MaxCreateCalls == 2

ValidateInit ==
  /\ payload \in Payloads
  /\ validationErrors = Null
  /\ createCalls = 0
  /\ apiRequests = <<>>
  /\ ValidateRest

\* const errors = AssetApi.validateAssetData(assetData)
Validate ==
  /\ validationErrors' = <<validateAssetData(payload)>>
  /\ UNCHANGED <<payload, createCalls, apiRequests>>
  /\ ValidateFrame

\* AssetApi.createAsset(asset) up to its await, as the hook's createAsset calls
\* it: the payload is posted as it is.
CreateAsset ==
  /\ createCalls < MaxCreateCalls
  /\ createCalls' = createCalls + 1
  /\ apiRequests' =
       Append(apiRequests, [request |-> Request("useCreateAsset", Null, 0),
                            body |-> payload])
  /\ UNCHANGED <<payload, validationErrors>>
  /\ ValidateFrame

ValidateNext == Validate \/ CreateAsset

SpecValidate == ValidateInit /\ [][ValidateNext]_allVars

\* For C14, C15: the validation has run.
Validated == validationErrors # Null
Errors == validationErrors[1]

\* A required text member is missing or blank; the price is missing.
Blank(value) == value = Null \/ Trim(value[1]) = ""
ValidData(asset) ==
  /\ ~Blank(asset.name) /\ ~Blank(asset.category) /\ ~Blank(asset.serialNumber)
  /\ ~Blank(asset.purchaseDate) /\ ~Blank(asset.status)
  /\ asset.purchasePrice # Null
  /\ ~asset.purchasePrice[1].nan
  /\ asset.purchasePrice[1].cents > 0
Names(errors, field) == \E i \in 1..Len(errors) : Contains(errors[i], field)

\* C14: validateAssetData returns the empty list for every valid payload, and
\* for every payload with a required member (name, category, serialNumber,
\* purchaseDate, purchasePrice, status) missing or blank, or with a price <= 0,
\* a list with a message naming that member.
C14_ValidationComplete ==
  Validated =>
    /\ ValidData(payload) => Errors = <<>>
    /\ Blank(payload.name) => Names(Errors, "Asset name")
    /\ Blank(payload.category) => Names(Errors, "Category")
    /\ Blank(payload.serialNumber) => Names(Errors, "Serial number")
    /\ Blank(payload.purchaseDate) => Names(Errors, "Purchase date")
    /\ (payload.purchasePrice = Null
        \/ (payload.purchasePrice # Null /\ ~payload.purchasePrice[1].nan
            /\ payload.purchasePrice[1].cents <= 0)) =>
         Names(Errors, "Purchase price")
    /\ Blank(payload.status) => Names(Errors, "Status")

\* The payload's name is empty and its other members are valid.
EmptyNameOnly ==
  /\ payload.name = Str("")
  /\ ValidData([payload EXCEPT !.name = Str("Laptop")])

\* C15, as claimed: create called with a payload whose name is empty and
\* whose other members are valid issues no network request, and validating
\* that payload returns exactly ["Asset name is required"].
C15_InvalidNotSent ==
  EmptyNameOnly =>
    /\ apiRequests = <<>>
    /\ Validated => Errors = <<"Asset name is required">>

\* C15, amended: validating such a payload returns exactly ["Asset name is
\* required"], and every create call with it posts it to /api/assets all the
\* same.
C15_InvalidSentUnvalidated ==
  EmptyNameOnly =>
    /\ Validated => Errors = <<"Asset name is required">>
    /\ Len(apiRequests) = createCalls
    /\ \A i \in 1..Len(apiRequests) :
         /\ apiRequests[i].request = [method |-> "POST", url |-> "/api/assets"]
         /\ apiRequests[i].body = payload

\* Such a payload has been validated and create has been called with it.
C15_Witness ==
  EmptyNameOnly /\ Validated /\ createCalls > 0 /\ apiRequests # <<>>

\* =================================================== components/AssetForm

\* The members of FormData, in the order Object.keys(formData) lists them.
FormFields ==
  <<"name", "description", "category", "serialNumber", "purchaseDate",
    "purchasePrice", "status">>
FieldSet == {FormFields[i] : i \in 1..Len(FormFields)}

ASSET_STATUSES == {"active", "inactive", "maintenance", "disposed"}

\* A string of n copies of the character c.
RECURSIVE Repeat(_, _)
Repeat(c, n) ==
  IF n = 0 THEN ""
  ELSE IF n % 2 = 0 THEN LET half == Repeat(c, n \div 2) IN half \o half
  ELSE c \o Repeat(c, n - 1)

\* The value of a decimal digit, -1 for any other character.
DigitOf(c) ==
  CASE c = "0" -> 0 [] c = "1" -> 1 [] c = "2" -> 2 [] c = "3" -> 3 [] c = "4" -> 4
    [] c = "5" -> 5 [] c = "6" -> 6 [] c = "7" -> 7 [] c = "8" -> 8 [] c = "9" -> 9
    [] OTHER -> -1

\* The longest prefix of s made of digits: its value, its length, and the rest.
RECURSIVE ReadDigits(_, _, _)
ReadDigits(s, acc, n) ==
  IF Len(s) > 0 /\ DigitOf(SubSeq(s, 1, 1)) >= 0
  THEN ReadDigits(SubSeq(s, 2, Len(s)), acc * 10 + DigitOf(SubSeq(s, 1, 1)), n + 1)
  ELSE [value |-> acc, count |-> n, rest |-> s]

\* parseFloat, in cents: leading whitespace, an optional sign, digits, an
\* optional fraction (its first two digits count), anything after that
\* ignored; NaN without a digit.
parseFloat(s) ==
  LET t == TrimStart(s)
      neg == Len(t) > 0 /\ SubSeq(t, 1, 1) = "-"
      u == IF neg THEN SubSeq(t, 2, Len(t)) ELSE t
      whole == ReadDigits(u, 0, 0)
      hasPoint == Len(whole.rest) > 0 /\ SubSeq(whole.rest, 1, 1) = "."
      frac == IF hasPoint THEN ReadDigits(SubSeq(whole.rest, 2, Len(whole.rest)), 0, 0)
              ELSE [value |-> 0, count |-> 0, rest |-> ""]
      fracCents == CASE frac.count = 0 -> 0
                     [] frac.count = 1 -> frac.value * 10
                     [] frac.count = 2 -> frac.value
                     [] OTHER -> ReadDigits(SubSeq(whole.rest, 2, 3), 0, 0).value
      cents == whole.value * 100 + fracCents
  IN IF whole.count = 0 /\ frac.count = 0 THEN NaNPrice
     ELSE Price(IF neg THEN 0 - cents ELSE cents)

\* Number.prototype.toString of a non-negative price held in cents.
priceToString(cents) ==
  LET whole == ToString(cents \div 100)
      f == cents % 100
  IN IF f = 0 THEN whole
     ELSE IF f % 10 = 0 THEN whole \o "." \o ToString(f \div 10)
     ELSE IF f < 10 THEN whole \o ".0" \o ToString(f)
     ELSE whole \o "." \o ToString(f)

\* new Date(value) for a date-only string: Null for an invalid date, else the
\* day YYYY-MM-DD as the number YYYYMMDD (its instant is that day's start).
parseDate(value) ==
  LET y == ReadDigits(value, 0, 0)
      m == ReadDigits(SubSeq(value, 6, Len(value)), 0, 0)
      d == ReadDigits(SubSeq(value, 9, Len(value)), 0, 0)
  IN IF /\ Len(value) = 10
        /\ SubSeq(value, 5, 5) = "-" /\ SubSeq(value, 8, 8) = "-"
        /\ y.count = 4 /\ m.count = 2 /\ d.count = 2
        /\ m.value \in 1..12 /\ d.value \in 1..31
     THEN <<y.value * 10000 + m.value * 100 + d.value>>
     ELSE Null

validateField(name, value) ==
  CASE name = "name" ->
         IF Trim(value) = "" THEN Str("Asset name is required")
         ELSE IF Len(value) > 255
         THEN Str("Asset name must be less than 255 characters") ELSE Null
    [] name = "category" ->
         IF Trim(value) = "" THEN Str("Category is required")
         ELSE IF Len(value) > 100
         THEN Str("Category must be less than 100 characters") ELSE Null
    [] name = "serialNumber" ->
         IF Trim(value) = "" THEN Str("Serial number is required")
         ELSE IF Len(value) > 100
         THEN Str("Serial number must be less than 100 characters") ELSE Null
    [] name = "purchaseDate" ->
         IF value = "" THEN Str("Purchase date is required")
         ELSE IF parseDate(value) = Null THEN Str("Please enter a valid date")
         ELSE IF parseDate(value)[1] > formNow
         THEN Str("Purchase date cannot be in the future") ELSE Null
    [] name = "purchasePrice" ->
         IF Trim(value) = "" THEN Str("Purchase price is required")
         ELSE LET price == parseFloat(value)[1]
              IN IF price.nan THEN Str("Please enter a valid price")
                 ELSE IF price.cents <= 0
                 THEN Str("Purchase price must be greater than 0")
                 ELSE IF price.cents > 99999999
                 THEN Str("Purchase price is too large") ELSE Null
    [] name = "status" ->
         IF value = "" THEN Str("Status is required")
         ELSE IF value \notin ASSET_STATUSES
         THEN Str("Please select a valid status") ELSE Null
    [] OTHER -> Null

\* validateForm: the errors it sets, and whether it found none.
\* Variant: the price is not looked at.
validateForm_SkipsPrice(fd) ==
  [f \in FieldSet |-> IF f = "purchasePrice" THEN Null ELSE validateField(f, fd[f])]
validateForm(fd) == [f \in FieldSet |-> validateField(f, fd[f])]
isValid(newErrors) == \A f \in FieldSet : newErrors[f] = Null

\* The fd handleSubmit hands to onSubmit.
submitData(fd) ==
  [name |-> Trim(fd["name"]),
   description |-> Trim(fd["description"]),
   category |-> Trim(fd["category"]),
   serialNumber |-> Trim(fd["serialNumber"]),
   purchaseDate |-> fd["purchaseDate"],
   purchasePrice |-> parseFloat(fd["purchasePrice"]),
   status |-> fd["status"]]

\* asset.purchaseDate.split("T")[0]
RECURSIVE BeforeT(_)
BeforeT(s) ==
  IF s = "" \/ SubSeq(s, 1, 1) = "T" THEN ""
  ELSE SubSeq(s, 1, 1) \o BeforeT(SubSeq(s, 2, Len(s)))

\* The asset an edit page passes, and the empty form of a create page.
ExistingAsset ==
  [name |-> "Laptop", description |-> "Dell XPS 13", category |-> "Electronics",
   serialNumber |-> "SN-1", purchaseDate |-> "2020-05-17T09:30:00Z",
   purchasePrice |-> 129999, status |-> "active"]

EmptyForm ==
  [f \in FieldSet |-> IF f = "status" THEN "active" ELSE ""]

FormOf(asset) ==
  [f \in FieldSet |->
     CASE f = "purchaseDate" -> BeforeT(asset.purchaseDate)
       [] f = "purchasePrice" -> priceToString(asset.purchasePrice)
       [] f = "name" -> asset.name
       [] f = "description" -> asset.description
       [] f = "category" -> asset.category
       [] f = "serialNumber" -> asset.serialNumber
       [] OTHER -> asset.status]

\* The form a (re)set leaves for the asset prop.
initialForm(asset) == IF asset = Null THEN EmptyForm ELSE FormOf(asset[1])

NoErrors == [f \in FieldSet |-> Null]

\* The days the clock can show, as YYYYMMDD.
Todays == {20261103}

\* What the user can put into each control: any text in the text inputs and
\* options, and the empty string or a valid date or number in the date and
\* number inputs.
FieldValues(f) ==
  CASE f = "name" -> {"", "  ", " Laptop ", Repeat("n", 255), Repeat("n", 256)}
    [] f = "description" -> {"", " spare unit "}
    [] f = "category" -> {"", " IT ", Repeat("c", 100), Repeat("c", 101)}
    [] f = "serialNumber" -> {" ", "SN-2 ", Repeat("s", 101)}
    [] f = "purchaseDate" -> {"", "2026-11-03", "2026-11-04"}
    [] f = "purchasePrice" ->
         {"", "0", "-5", "0.01", "12.5", "999999.99", "1000000"}
    [] OTHER -> {"", "maintenance", "retired"}

\* Change and blur events in one run.
MaxFormEvents == 3

FormInit ==
  /\ formAsset \in {Null, <<ExistingAsset>>}
  /\ formData = initialForm(formAsset)
  /\ formErrors = NoErrors
  /\ touched = {}
  /\ formNow \in Todays
  /\ formEvents = 0
  /\ formStep = "mount"
  /\ submitted = Null
  /\ FormRest

handleInputChange(f, value) ==
  /\ formEvents < MaxFormEvents
  /\ formEvents' = formEvents + 1
  /\ formData' = [formData EXCEPT ![f] = value]
  /\ formErrors' = IF formErrors[f] # Null THEN [formErrors EXCEPT ![f] = Null]
                   ELSE formErrors
  /\ formStep' = "change"
  /\ submitted' = Null
  /\ UNCHANGED <<formAsset, touched, formNow>>
  /\ FormFrame

handleBlur(f) ==
  /\ formEvents < MaxFormEvents
  /\ formEvents' = formEvents + 1
  /\ touched' = touched \cup {f}
  /\ formErrors' = [formErrors EXCEPT ![f] = validateField(f, formData[f])]
  /\ formStep' = "blur"
  /\ submitted' = Null
  /\ UNCHANGED <<formAsset, formData, formNow>>
  /\ FormFrame

handleSubmit ==
  LET newErrors == validateForm(formData)
  IN /\ touched' = FieldSet
     /\ formErrors' = newErrors
     /\ submitted' = IF isValid(newErrors) THEN <<submitData(formData)>> ELSE Null
     /\ formStep' = "submit"
     /\ UNCHANGED <<formAsset, formData, formNow, formEvents>>
     /\ FormFrame

handleReset ==
  /\ formData' = initialForm(formAsset)
  /\ formErrors' = NoErrors
  /\ touched' = {}
  /\ formStep' = "reset"
  /\ submitted' = Null
  /\ UNCHANGED <<formAsset, formNow, formEvents>>
  /\ FormFrame

FormNext ==
  \/ \E f \in FieldSet : \E value \in FieldValues(f) : handleInputChange(f, value)
  \/ \E f \in FieldSet : handleBlur(f)
  \/ handleSubmit
  \/ handleReset

SpecForm == FormInit /\ [][FormNext]_allVars

\* For C16: a field's value passes the rules the claim lists.
NonBlank(value) == Trim(value) # ""
FieldOk(f) ==
  LET value == formData[f]
  IN CASE f = "name" -> NonBlank(value) /\ Len(value) <= 255
       [] f = "category" -> NonBlank(value) /\ Len(value) <= 100
       [] f = "serialNumber" -> NonBlank(value) /\ Len(value) <= 100
       [] f = "purchaseDate" ->
            parseDate(value) # Null /\ parseDate(value)[1] <= formNow
       [] f = "purchasePrice" ->
            /\ ~parseFloat(value)[1].nan
            /\ parseFloat(value)[1].cents > 0
            /\ parseFloat(value)[1].cents <= 99999999
       [] f = "status" -> value \in ASSET_STATUSES
       [] OTHER -> TRUE

\* C16: handleSubmit calls onSubmit exactly when every field passes: name,
\* category and serialNumber non-blank and at most 255/100/100 characters,
\* purchaseDate a valid date not in the future, purchasePrice a number with
\* 0 < price <= 999999.99, status one of the four statuses; otherwise it calls
\* nothing and records an error for each offending field; the data submitted
\* has the strings trimmed and the price parsed.
C16_SubmitOnlyValid ==
  formStep = "submit" =>
    /\ submitted # Null <=> (\A f \in FieldSet : FieldOk(f))
    /\ \A f \in FieldSet : ~FieldOk(f) => formErrors[f] # Null
    /\ submitted # Null =>
         /\ submitted[1].name = Trim(formData["name"])
         /\ submitted[1].description = Trim(formData["description"])
         /\ submitted[1].category = Trim(formData["category"])
         /\ submitted[1].serialNumber = Trim(formData["serialNumber"])
         /\ submitted[1].purchaseDate = formData["purchaseDate"]
         /\ submitted[1].status = formData["status"]
         /\ submitted[1].purchasePrice = parseFloat(formData["purchasePrice"])
         /\ submitted[1].purchasePrice[1].cents \in 1..99999999
         /\ \A s \in {submitted[1].name, submitted[1].category,
                      submitted[1].serialNumber} :
              SubSeq(s, 1, 1) # " " /\ SubSeq(s, Len(s), Len(s)) # " "

\* A form whose name carries surrounding blanks and whose price was typed in
\* has been submitted.
C16_Witness ==
  /\ formStep = "submit"
  /\ submitted # Null
  /\ formData["name"] = " Laptop "
  /\ formData["purchasePrice"] = "0.01"
  /\ submitted[1].name = "Laptop"
  /\ submitted[1].purchasePrice = Price(1)

\* =================================================== the ToastProvider

\* Default durations, in milliseconds: addToast's, and showError's.
DefaultToastMs == 5000
ErrorToastMs == 8000

\* Toasts made in one run.
MaxToasts == 3

\* uuidv4(): the n-th identifier generated differs from every earlier one; it
\* is named by n.
uuidv4(n) == n + 1

ToastProps(id, message, type, duration) ==
  [id |-> id, message |-> message, type |-> type, duration |-> duration]

\* The identifiers in the registry, in order.
ToastIdsOf(ts) == [i \in 1..Len(ts) |-> ts[i].id]

\* addToast's default parameter: duration = 5000 when it is undefined.
addToastDuration(duration) == IF duration = Null THEN DefaultToastMs ELSE duration[1]

\* showError's default parameter: duration = 8000 when it is undefined.
\* Variant: showError passes its duration on as the other helpers do.
showErrorDuration_PassedOn(duration) == duration
showErrorDuration(duration) == IF duration = Null THEN <<ErrorToastMs>> ELSE duration

\* setToasts((prev) => [...prev, newToast]).  Variant: the new toast is put
\* in front.
appendToast_InFront(prev, newToast) == <<newToast>> \o prev
appendToast(prev, newToast) == Append(prev, newToast)

\* setToasts((prev) => prev.filter((toast) => toast.id !== id)).  Variant:
\* when no toast has the id, the oldest one goes.
filterToasts_OldestIfAbsent(prev, id) ==
  IF \E i \in 1..Len(prev) : prev[i].id = id
  THEN SelectSeq(prev, LAMBDA toast : toast.id # id)
  ELSE IF prev = <<>> THEN prev ELSE Tail(prev)
filterToasts(prev, id) == SelectSeq(prev, LAMBDA toast : toast.id # id)

\* The arguments callers pass: a message, an optional duration, a value to
\* report as an error, an identifier (registered or not).
ToastMessages == {"Asset saved"}
ToastDurations == {Null, <<3000>>}
ToastTypes == {"success", "error", "info", "warning"}
ReportedErrors ==
  {NetworkUnreachable,
   ResponseError(409, Envelope(Str("DUPLICATE_SERIAL"),
                               Str("Serial number SN-1 is already in use"), NoDetails)),
   JsError("Asset not found")}

ToastStep(op, id, present, message, thrown, duration) ==
  [op |-> op, id |-> id, present |-> present, message |-> message,
   thrown |-> thrown, duration |-> duration]

ToastInit ==
  /\ toasts = <<>>
  /\ issued = 0
  /\ toastStep = ToastStep("none", 0, FALSE, "", Null, Null)
  /\ ToastRest

\* addToast(message, type, duration) as op calls it; op names the function
\* the caller used.
addToast(op, message, type, duration, thrown, given) ==
  LET id == uuidv4(issued)
      newToast == ToastProps(id, message, type, addToastDuration(duration))
  IN /\ issued < MaxToasts
     /\ issued' = issued + 1
     /\ toasts' = appendToast(toasts, newToast)
     /\ toastStep' = ToastStep(op, id, FALSE, message, thrown, given)
     /\ ToastFrame

AddToast ==
  \E message \in ToastMessages, type \in ToastTypes, duration \in ToastDurations :
    addToast("addToast", message, type, duration, Null, duration)

removeToast(id) ==
  /\ toasts' = filterToasts(toasts, id)
  /\ toastStep' =
       ToastStep("removeToast", id, \E i \in 1..Len(toasts) : toasts[i].id = id,
                 "", Null, Null)
  /\ UNCHANGED issued
  /\ ToastFrame

clearAllToasts ==
  /\ toasts' = <<>>
  /\ toastStep' = ToastStep("clearAllToasts", 0, FALSE, "", Null, Null)
  /\ UNCHANGED issued
  /\ ToastFrame

showSuccess(message, duration) ==
  addToast("showSuccess", message, "success", duration, Null, duration)

showError(thrown, duration) ==
  LET formattedError == formatError(thrown)
      userFriendlyMessage == getUserFriendlyErrorMessage(formattedError)
  IN addToast("showError", userFriendlyMessage, "error",
              showErrorDuration(duration), <<thrown>>, duration)

showInfo(message, duration) ==
  addToast("showInfo", message, "info", duration, Null, duration)

showWarning(message, duration) ==
  addToast("showWarning", message, "warning", duration, Null, duration)

ToastNext ==
  \/ AddToast
  \/ \E id \in 1..(MaxToasts + 1) : removeToast(id)
  \/ clearAllToasts
  \/ \E message \in ToastMessages, duration \in ToastDurations :
       showSuccess(message, duration)
  \/ \E thrown \in ReportedErrors, duration \in ToastDurations :
       showError(thrown, duration)
  \/ \E message \in ToastMessages, duration \in ToastDurations :
       showInfo(message, duration)
  \/ \E message \in ToastMessages, duration \in ToastDurations :
       showWarning(message, duration)

SpecToast == ToastInit /\ [][ToastNext]_allVars

\* For C17-C19: the functions that add a toast, and the toast at the end.
AddingOps == {"addToast", "showSuccess", "showError", "showInfo", "showWarning"}
LastToast(ts) == ts[Len(ts)]
Registered(ts, id) == \E i \in 1..Len(ts) : ts[i].id = id

\* C17: every call leaves the registry holding exactly the toasts added and
\* not yet removed, in insertion order, with pairwise distinct ids: an adding
\* call appends one toast at the end and returns that toast's id, which no
\* toast had before; removeToast takes out the toasts with the given id and
\* keeps the others in order; clearAllToasts leaves the registry empty.
C17_RegistryInInsertionOrder ==
  [][/\ (toastStep'.op \in AddingOps) =>
          /\ Len(toasts') = Len(toasts) + 1
          /\ SubSeq(toasts', 1, Len(toasts)) = toasts
          /\ LastToast(toasts').id = toastStep'.id
          /\ ~Registered(toasts, toastStep'.id)
     /\ (toastStep'.op = "removeToast") =>
          toasts' = SelectSeq(toasts, LAMBDA t : t.id # toastStep'.id)
     /\ (toastStep'.op = "clearAllToasts") => toasts' = <<>>
     /\ \A i, j \in 1..Len(toasts') : i < j => toasts'[i].id < toasts'[j].id
    ]_allVars

\* The middle one of three toasts has been removed.
C17_Witness ==
  /\ toastStep.op = "removeToast"
  /\ toastStep.present
  /\ ToastIdsOf(toasts) = <<1, 3>>

\* C18: removeToast with an id no toast has (never added, or removed before)
\* leaves the registry as it is, and removeToast never takes out a toast
\* with another id.
C18_RemoveIdempotent ==
  [][(toastStep'.op = "removeToast") =>
       /\ ~Registered(toasts, toastStep'.id) => toasts' = toasts
       /\ ~Registered(toasts', toastStep'.id)
       /\ \A i \in 1..Len(toasts) :
            toasts[i].id # toastStep'.id => Registered(toasts', toasts[i].id)
       /\ Len(toasts') <= Len(toasts)
    ]_allVars

\* removeToast has been called a second time for a toast, with other toasts
\* registered.
C18_Witness ==
  /\ toastStep.op = "removeToast"
  /\ ~toastStep.present
  /\ toastStep.id <= issued
  /\ Len(toasts) = 2

\* C19: showError(x, d) appends one toast of type error whose message is
\* getUserFriendlyErrorMessage(formatError(x)) and whose duration is d, or
\* 8000 without d; showSuccess, showInfo and showWarning(message, d) append
\* one toast of their type with that message and duration d, or 5000
\* without d.
C19_HelpersAppendOne ==
  [][LET step == toastStep'
         d(default) == IF step.duration = Null THEN default ELSE step.duration[1]
     IN /\ (step.op = "showError") =>
             toasts' = Append(toasts,
                              ToastProps(step.id,
                                         getUserFriendlyErrorMessage(
                                           formatError(step.thrown[1])),
                                         "error", d(8000)))
        /\ (step.op = "showSuccess") =>
             toasts' = Append(toasts, ToastProps(step.id, step.message, "success", d(5000)))
        /\ (step.op = "showInfo") =>
             toasts' = Append(toasts, ToastProps(step.id, step.message, "info", d(5000)))
        /\ (step.op = "showWarning") =>
             toasts' = Append(toasts, ToastProps(step.id, step.message, "warning", d(5000)))
    ]_allVars

\* showError has been called without a duration.
C19_Witness ==
  /\ toastStep.op = "showError"
  /\ toastStep.duration = Null
  /\ toastStep.thrown = <<NetworkUnreachable>>
  /\ LastToast(toasts).duration = 8000
  /\ LastToast(toasts).message = NetworkUserMessage

\* =================================================== components/Toast

\* Length of the exit animation, in milliseconds.
ExitAnimationMs == 300

\* Durations the shown toast can have: sticky, a caller's, the default.
ViewDurations == {0, 3000, DefaultToastMs}

\* How far the clock moves in one step when no timer is due sooner.
TimeSteps == {100, 1000}

\* The toast the component shows, and whether it is still registered.
ShownToast(duration) == ToastProps(uuidv4(0), "Asset saved", "success", duration)
Shown == toasts # <<>>
ViewDuration == toasts[1].duration

\* The timer the expiry effect leaves pending when it runs: none for a
\* sticky toast or a paused one, else one of the full duration.
\* Variant: the effect sets no timer.
expiryEffect_NoTimer(duration, paused) == Null
expiryEffect(duration, paused) ==
  IF duration = 0 THEN Null
  ELSE IF ~paused THEN <<duration>> ELSE Null

\* The time left on the pending timers.
Pending == {t[1] : t \in {timer, animationTimer} \ {Null}}
NextDue == CHOOSE m \in Pending : \A n \in Pending : m <= n

ExpiryInit ==
  /\ \E duration \in ViewDurations :
       /\ toasts = <<ShownToast(duration)>>
       /\ toastStep = ToastStep("addToast", uuidv4(0), FALSE, "Asset saved", Null,
                                <<duration>>)
       /\ timer = expiryEffect(duration, FALSE)
  /\ issued = 1
  /\ isExiting = FALSE
  /\ isPaused = FALSE
  /\ animationTimer = Null
  /\ sinceStart = 0
  /\ viewStep = "mount"
  /\ ExpiryRest

\* setIsPaused(true): the effect's cleanup clears both timers and the effect
\* runs again, paused.
handleMouseEnter ==
  /\ Shown /\ ~isPaused
  /\ isPaused' = TRUE
  /\ timer' = expiryEffect(ViewDuration, TRUE)
  /\ animationTimer' = Null
  /\ sinceStart' = 0
  /\ viewStep' = "enter"
  /\ UNCHANGED <<isExiting, toastVars>>
  /\ ExpiryFrame

\* setIsPaused(false): cleanup, and the effect runs again, not paused.
handleMouseLeave ==
  /\ Shown /\ isPaused
  /\ isPaused' = FALSE
  /\ timer' = expiryEffect(ViewDuration, FALSE)
  /\ animationTimer' = Null
  /\ sinceStart' = 0
  /\ viewStep' = "leave"
  /\ UNCHANGED <<isExiting, toastVars>>
  /\ ExpiryFrame

\* Time passes, by no more than the next timer allows.
TimePasses ==
  /\ Shown /\ Pending # {} /\ NextDue > 0
  /\ \E delta \in {NextDue} \cup {s \in TimeSteps : s < NextDue} :
       /\ timer' = IF timer = Null THEN Null ELSE <<timer[1] - delta>>
       /\ animationTimer' =
            IF animationTimer = Null THEN Null ELSE <<animationTimer[1] - delta>>
       /\ sinceStart' = sinceStart + delta
  /\ viewStep' = "time"
  /\ UNCHANGED <<isExiting, isPaused, toastVars>>
  /\ ExpiryFrame

\* The duration timer's callback: the exit begins and the animation timer is
\* set.
timerFires ==
  /\ Shown /\ timer = <<0>>
  /\ isExiting' = TRUE
  /\ timer' = Null
  /\ animationTimer' = <<ExitAnimationMs>>
  /\ viewStep' = "exiting"
  /\ UNCHANGED <<isPaused, sinceStart, toastVars>>
  /\ ExpiryFrame

\* onClose(id) is the provider's removeToast: the toast leaves the registry,
\* the component unmounts and its cleanup clears the timers.
onClose(step) ==
  /\ toasts' = filterToasts(toasts, toasts[1].id)
  /\ toastStep' = ToastStep("removeToast", toasts[1].id, TRUE, "", Null, Null)
  /\ isExiting' = FALSE
  /\ isPaused' = FALSE
  /\ timer' = Null
  /\ animationTimer' = Null
  /\ viewStep' = step
  /\ UNCHANGED <<issued, sinceStart>>
  /\ ExpiryFrame

\* The animation timer's callback.
animationTimerFires ==
  /\ Shown /\ animationTimer = <<0>>
  /\ onClose("expired")

\* The close button.
handleClose ==
  /\ Shown
  /\ onClose("close")

\* Another component removes the toast, or clears the registry.
RemoveShown ==
  /\ Shown
  /\ onClose("removeToast")

ClearShown ==
  /\ Shown
  /\ toasts' = <<>>
  /\ toastStep' = ToastStep("clearAllToasts", 0, FALSE, "", Null, Null)
  /\ isExiting' = FALSE
  /\ isPaused' = FALSE
  /\ timer' = Null
  /\ animationTimer' = Null
  /\ viewStep' = "clearAllToasts"
  /\ UNCHANGED <<issued, sinceStart>>
  /\ ExpiryFrame

ExpiryNext ==
  \/ handleMouseEnter
  \/ handleMouseLeave
  \/ TimePasses
  \/ timerFires
  \/ animationTimerFires
  \/ handleClose
  \/ RemoveShown
  \/ ClearShown

SpecExpiry == ExpiryInit /\ [][ExpiryNext]_allVars

\* Time does not stop and a due timer's callback runs; the pointer and the
\* other callers are free.
SpecExpiryFair ==
  /\ SpecExpiry
  /\ WF_allVars(TimePasses)
  /\ WF_allVars(timerFires)
  /\ WF_allVars(animationTimerFires)

\* For C20: the shown toast expires by itself; a sticky one does not.
Expiring == Shown /\ ViewDuration > 0
Sticky == Shown /\ ViewDuration = 0

\* C20: a shown toast with duration > 0 that is not hovered has a removal
\* pending that falls due when the duration plus the exit animation have
\* elapsed since its countdown started, and it is eventually removed unless
\* it gets hovered; while it is hovered no timer of it is pending; when the
\* pointer leaves, the countdown starts again with the full duration; a toast
\* with duration 0 has no timer and leaves the registry only by the close
\* button, removeToast or clearAllToasts.
C20_Expiry ==
  /\ []((Expiring /\ ~isPaused) =>
          /\ Pending # {}
          /\ timer # Null => timer[1] + sinceStart = ViewDuration
          /\ animationTimer # Null =>
               animationTimer[1] + sinceStart = ViewDuration + 300)
  /\ [][(viewStep' = "expired") =>
          (Expiring /\ sinceStart = ViewDuration + 300)]_allVars
  /\ [](isPaused => (timer = Null /\ animationTimer = Null))
  /\ [][(Expiring /\ viewStep' = "leave") =>
          (timer' = <<ViewDuration>> /\ animationTimer' = Null /\ sinceStart' = 0)
       ]_allVars
  /\ [](Sticky => Pending = {})
  /\ [][(Sticky /\ ~Shown') =>
          viewStep' \in {"close", "removeToast", "clearAllToasts"}]_allVars
  /\ [](Expiring /\ ~isPaused => <>(~Shown \/ isPaused))

\* A toast of the default duration has expired by itself.
C20_Witness ==
  /\ viewStep = "expired"
  /\ ~Shown
  /\ sinceStart = 5300

\* C30: once the shown toast's exit has begun (isExiting set by the duration
\* timer), its removal stays pending and falls due within the 300 ms of the
\* exit animation, whatever pointer enter/leave events occur meanwhile.
C30_ExitCompletes ==
  (Shown /\ isExiting) =>
    /\ animationTimer # Null
    /\ animationTimer[1] <= ExitAnimationMs

\* C26: formatError is idempotent on its own output: formatting the ApiError
\* that formatError returned yields the same message, code and status, so the
\* sentence showError displays for an already formatted error is the sentence
\* it displays for the original value.
C26_FormatIdempotent ==
  (fmtOutput # Null /\ fmtAgain # Null) =>
    /\ fmtAgain[1].message = fmtOutput[1].message
    /\ fmtAgain[1].code = fmtOutput[1].code
    /\ fmtAgain[1].status = fmtOutput[1].status
    /\ getUserFriendlyErrorMessage(fmtAgain[1]) =
         getUserFriendlyErrorMessage(fmtOutput[1])

\* ---------------------------------------------- the global error handler

\* Calls of initGlobalErrorHandler and window events in one run.
MaxInitCalls == 3
MaxWindowEvents == 2

\* What an "error" event carries: event.error (Null for a script error of
\* another origin) and event.message.
ErrorEvents ==
  {[error |-> <<JsError("Asset not found")>>, message |-> "Uncaught Error: Asset not found"],
   [error |-> Null, message |-> "Script error."]}

\* What a rejected promise nobody handles carries as reason.
RejectionReasons ==
  {NetworkUnreachable, JsError("Asset not found"), JsString("Something went wrong"),
   JsValue("undefined", "")}

GlobalInit ==
  /\ showErrorToast = Null
  /\ errorListeners = 0
  /\ rejectionListeners = 0
  /\ windowEvents = <<>>
  /\ globalToasts = <<>>
  /\ GlobalRest

\* AppContent's effect: initGlobalErrorHandler(showError) stores the toast
\* function and setupGlobalHandlers adds one listener of each kind; nothing
\* removes a listener.
initGlobalErrorHandler ==
  /\ errorListeners < MaxInitCalls
  /\ showErrorToast' = <<"showError">>
  /\ errorListeners' = errorListeners + 1
  /\ rejectionListeners' = rejectionListeners + 1
  /\ UNCHANGED <<windowEvents, globalToasts>>
  /\ GlobalFrame

\* The toasts one run of handleGlobalError shows: showErrorToast is the
\* provider's showError, handed the formatted error.
handleGlobalError(thrown) ==
  IF showErrorToast = Null THEN <<>>
  ELSE <<getUserFriendlyErrorMessage(formatError(AsThrown(formatError(thrown))))>>

\* The window dispatches an event to each of the listeners of its kind; each
\* listener runs handleGlobalError.
dispatchEvent(kind, listeners, thrown) ==
  LET shown == handleGlobalError(thrown)
      all == [i \in 1..(listeners * Len(shown)) |-> shown[1]]
  IN /\ Len(windowEvents) < MaxWindowEvents
     /\ globalToasts' = globalToasts \o all
     /\ windowEvents' =
          Append(windowEvents,
                 [kind |-> kind, thrown |-> thrown, listeners |-> listeners,
                  toasts |-> Len(all)])
     /\ UNCHANGED <<showErrorToast, errorListeners, rejectionListeners>>
     /\ GlobalFrame

\* An uncaught synchronous error: event.error || new Error(event.message).
WindowError ==
  \E event \in ErrorEvents :
    dispatchEvent("error", errorListeners,
                  IF event.error # Null THEN event.error[1] ELSE JsError(event.message))

\* A promise rejection nobody handled: event.reason.
UnhandledRejection ==
  \E reason \in RejectionReasons :
    dispatchEvent("unhandledrejection", rejectionListeners, reason)

GlobalNext ==
  \/ initGlobalErrorHandler
  \/ WindowError
  \/ UnhandledRejection

SpecGlobal == GlobalInit /\ [][GlobalNext]_allVars

\* C21: after any number (at least one) of initGlobalErrorHandler calls, each
\* uncaught error and each unhandled rejection the window dispatches results
\* in exactly one error toast.
C21_OneToastPerEvent ==
  \A i \in 1..Len(windowEvents) :
    windowEvents[i].listeners >= 1 => windowEvents[i].toasts = 1

\* C25: for every data hook instance, loading is true whenever at least one of
\* its invocations is still in flight, also when invocations overlap:
\* loading = false implies that no request the instance started is pending.
C25_LoadingWhileInFlight == (inflight # {}) => loading

\* ------------------------------------------- components that use useAssets

\* Requests in flight are counted up to MaxPending; beyond it the count stays
\* at MaxPending.
MaxPending == 3

\* AssetList keeps the filters in a state of its own and passes that; the
\* usage guide's component passes an object literal, new on every render.
ListUsages == {"AssetList", "inline"}

DefaultFilters == Filters("", "", "", 1, 20)
InlineFilters == Filters("", "Electronics", "", 1, 20)

\* The filters SearchFilter hands to onFiltersChange, and the pages of the
\* pagination buttons.
ChangedFilters == {Filters("laptop", "", "", 1, 20), Filters("", "", "active", 1, 20)}
ListPages == 1..2

\* ceil(total / pageSize) for pageSize > 0.
Ceil(total, pageSize) == (total + pageSize - 1) \div pageSize

\* The body the backend answers GET /api/assets with: the number of matching
\* assets, the page size it used, and the number of pages that makes.
ListResponse(total, pageSize) ==
  [total |-> total, pageSize |-> pageSize, totalPages |-> Ceil(total, pageSize)]
ListTotals == {0, 20, 45}
ListPageSizes == {10, 20}
ListResponses == {ListResponse(t, s) : t \in ListTotals, s \in ListPageSizes}

\* useState's initial value of data.
InitialListData == [total |-> 0, pageSize |-> 20, totalPages |-> 0]

\* setData(response).  Variant: the page count is kept from the first
\* response on.
setData_KeepsPageCount(prev, response) ==
  IF prev.totalPages # 0 THEN [response EXCEPT !.totalPages = prev.totalPages]
  ELSE response
setData(prev, response) == response

\* The requests the auto-fetch effect issues in the renders that follow a
\* state change: a render of the inline usage passes a new filters object, so
\* the effect calls fetchAssets, whose setLoading(true) and setError(null)
\* cause one more render when they change a state; a render of AssetList
\* passes its filters state, and the effect runs only when that was set.
effectRequests(usage, filtersSet, filters, isLoading, err) ==
  LET url == getAssetsUrl(<<filters>>)
  IN IF usage = "inline" \/ filtersSet
     THEN IF usage = "inline" /\ ~(isLoading /\ err = Null) THEN <<url, url>> ELSE <<url>>
     ELSE <<>>

\* The count of requests in flight after n more were issued.
morePending(pending, n) ==
  IF pending + n > MaxPending THEN MaxPending ELSE pending + n

ListStep(op, requests) == [op |-> op, requests |-> requests]

ListInit ==
  /\ listUsage \in ListUsages
  /\ listMounted = FALSE
  /\ listFilters = (IF listUsage = "inline" THEN InlineFilters ELSE DefaultFilters)
  /\ listLoading = FALSE
  /\ listError = Null
  /\ listData = InitialListData
  /\ listPending = 0
  /\ listStep = ListStep("none", <<>>)
  /\ ListRest

\* The first render: the effect calls fetchAssets(initialFilters); the
\* loading state changes, and the renders that follow run their effects.
ListMount ==
  LET first == <<getAssetsUrl(<<listFilters>>)>>
      requests == first \o effectRequests(listUsage, FALSE, listFilters, TRUE, Null)
  IN /\ ~listMounted
     /\ listMounted' = TRUE
     /\ listLoading' = TRUE
     /\ listError' = Null
     /\ listPending' = morePending(listPending, Len(requests))
     /\ listStep' = ListStep("mount", requests)
     /\ UNCHANGED <<listUsage, listFilters, listData>>
     /\ ListFrame

\* AssetList: setFilters(newFilters); refetch(newFilters); then the render
\* with the new filters state and its effect.
applyFilters(op, newFilters) ==
  LET requests == <<getAssetsUrl(<<newFilters>>)>>
                  \o effectRequests(listUsage, TRUE, newFilters, TRUE, Null)
  IN /\ listMounted
     /\ listUsage = "AssetList"
     /\ listFilters' = newFilters
     /\ listLoading' = TRUE
     /\ listError' = Null
     /\ listPending' = morePending(listPending, Len(requests))
     /\ listStep' = ListStep(op, requests)
     /\ UNCHANGED <<listUsage, listMounted, listData>>
     /\ ListFrame

handleFiltersChange ==
  \E newFilters \in ChangedFilters :
    applyFilters("handleFiltersChange", newFilters)

\* const newFilters = { ...filters, page: newPage }
handlePageChange ==
  \E newPage \in ListPages :
    applyFilters("handlePageChange", [listFilters EXCEPT !.page = newPage])

\* refetch: the guide's Refresh button calls refetch(), AssetList's retry
\* button refetch(filters).
ListRefetch ==
  LET changed == ~(listLoading /\ listError = Null)
      arg == IF listUsage = "inline" THEN Null ELSE <<listFilters>>
      requests == <<getAssetsUrl(arg)>>
                  \o (IF changed
                      THEN effectRequests(listUsage, FALSE, listFilters, TRUE, Null)
                      ELSE <<>>)
  IN /\ listMounted
     /\ listLoading' = TRUE
     /\ listError' = Null
     /\ listPending' = morePending(listPending, Len(requests))
     /\ listStep' = ListStep("refetch", requests)
     /\ UNCHANGED <<listUsage, listMounted, listFilters, listData>>
     /\ ListFrame

\* A request settles: fetchAssets resumes, stores the response or the error
\* message, and sets loading to false; the renders that follow run their
\* effects, which for the inline usage call fetchAssets again.
ListSettles(op, newData, newError, changed) ==
  LET requests ==
        IF changed
        THEN effectRequests(listUsage, FALSE, listFilters, FALSE, newError)
        ELSE <<>>
  IN /\ listPending > 0
     /\ listData' = newData
     /\ listError' = (IF requests = <<>> THEN newError ELSE Null)
     /\ listLoading' = (requests # <<>>)
     /\ listPending' = morePending(listPending - 1, Len(requests))
     /\ listStep' = ListStep(op, requests)
     /\ UNCHANGED <<listUsage, listMounted, listFilters>>
     /\ ListFrame

ListResolveOk ==
  \E response \in ListResponses :
    ListSettles("ok", setData(listData, response), listError, TRUE)

ListResolveFail ==
  \E thrown \in {NetworkUnreachable} :
    LET newError == hookCatch("useAssets", apiCatch(thrown)).error
    IN ListSettles("fail", listData, newError, listLoading \/ newError # listError)

ListNext ==
  \/ ListMount
  \/ handleFiltersChange
  \/ handlePageChange
  \/ ListRefetch
  \/ ListResolveOk
  \/ ListResolveFail

SpecList == ListInit /\ [][ListNext]_allVars

\* The backend keeps answering: a request in flight eventually settles.
SpecListFair ==
  /\ SpecList
  /\ WF_allVars(ListResolveOk \/ ListResolveFail)

\* For C22, C27, C28: the hook is at rest.
ListSettled == ~listLoading /\ listPending = 0
InlineMounted == listUsage = "inline" /\ listMounted

\* C28: a mounted component that passes useAssets an inline filters literal
\* issues finitely many list requests while the backend keeps answering: it
\* comes to rest with loading = false and no request pending (unless the user
\* asks for a refresh again).
C28_InlineFiltersSettle ==
  InlineMounted ~> (ListSettled \/ listStep.op = "refetch")

C27_OneRequestPerChange ==
  (listStep.op \in {"handleFiltersChange", "handlePageChange"}) =>
    Len(listStep.requests) = 1

\* ------------------------------------------------------ AssetDetailPage

\* Toasts one run of the page shows.
MaxDetailToasts == 3

\* The ids the route takes, and the failures its requests meet.
DetailIds == {1, 2}
DetailFailures ==
  {ResponseError(404, DetailBody("Asset not found")),
   ResponseError(500, TextBody("Internal Server Error")),
   NetworkUnreachable}

\* What the page renders for the fetch state: the title shown and whether a
\* retry action is offered.
DetailView(title, retry) == [title |-> title, retry |-> retry]
renderDetail(asset, isLoading, err) ==
  IF isLoading THEN DetailView("Loading asset information...", FALSE)
  ELSE IF err # Null \/ asset = Null THEN
    LET isNotFound ==
          \/ err # Null /\ (Contains(err[1], "404") \/ Contains(err[1], "not found"))
          \/ asset = Null
    IN DetailView(IF isNotFound THEN "Asset Not Found" ELSE "Error Loading Asset",
                  ~isNotFound)
  ELSE DetailView("Asset Details", FALSE)

Rendered == renderDetail(detailAsset, detailLoading, detailError)

DetailToast(type, message) == [type |-> type, message |-> message]
DetailStep(op, status, shown) == [op |-> op, status |-> status, toasts |-> shown]

\* The toasts handleConfirmDelete and the deleteError effect show when a
\* delete has failed with message: the handler shows the generic one when the
\* deleteError of its render was null, the effect shows the new deleteError.
deleteFailureToasts(seen, message) ==
  (IF seen = Null
   THEN <<DetailToast("error", "Failed to delete asset due to an unknown error.")>>
   ELSE <<>>)
  \o <<DetailToast("error", message)>>

DetailInit ==
  /\ detailId \in DetailIds
  /\ detailAsset = Null
  /\ detailLoading = FALSE
  /\ detailError = Null
  /\ showDeleteDialog = FALSE
  /\ deleteError = Null
  /\ deletePending = Null
  /\ location = "detail"
  /\ detailToasts = <<>>
  /\ detailStep = DetailStep("none", 0, 0)
  /\ DetailRest

\* fetchAsset up to its await.
fetchAssetStart(op, id) ==
  /\ detailId' = id
  /\ detailLoading' = TRUE
  /\ detailError' = Null
  /\ detailStep' = DetailStep(op, 0, 0)
  /\ UNCHANGED <<detailAsset, showDeleteDialog, deleteError, deletePending, location,
                 detailToasts>>
  /\ DetailFrame

\* The first render's effect.
DetailMount ==
  /\ detailStep.op = "none"
  /\ fetchAssetStart("mount", detailId)

\* The Retry action of the error state.
DetailRetry ==
  /\ location = "detail"
  /\ Rendered.retry
  /\ fetchAssetStart("retry", detailId)

\* The route changes to another asset while this one is shown: useAsset gets
\* a new id and its effect fetches; the asset state keeps the previous asset.
DetailChangeId ==
  /\ location = "detail"
  /\ Rendered.title = "Asset Details"
  /\ ~showDeleteDialog /\ deletePending = Null
  /\ \E id \in DetailIds \ {detailId} : fetchAssetStart("route", id)

DetailFetchOk ==
  /\ location = "detail"
  /\ detailLoading
  /\ detailAsset' = <<detailId>>
  /\ detailLoading' = FALSE
  /\ detailStep' = DetailStep("fetchOk", 0, 0)
  /\ UNCHANGED <<detailId, detailError, showDeleteDialog, deleteError, deletePending,
                 location, detailToasts>>
  /\ DetailFrame

DetailFetchFail ==
  /\ location = "detail"
  /\ detailLoading
  /\ \E thrown \in DetailFailures :
       /\ detailError' = hookCatch("useAsset", apiCatch(thrown)).error
       /\ detailStep' = DetailStep("fetchFail", thrown.status, 0)
  /\ detailLoading' = FALSE
  /\ UNCHANGED <<detailId, detailAsset, showDeleteDialog, deleteError, deletePending,
                 location, detailToasts>>
  /\ DetailFrame

\* setShowDeleteDialog(true) / (false).
handleDelete ==
  /\ location = "detail"
  /\ Rendered.title = "Asset Details"
  /\ ~showDeleteDialog
  /\ showDeleteDialog' = TRUE
  /\ detailStep' = DetailStep("handleDelete", 0, 0)
  /\ UNCHANGED <<detailId, detailAsset, detailLoading, detailError, deleteError,
                 deletePending, location, detailToasts>>
  /\ DetailFrame

handleCancelDelete ==
  /\ location = "detail"
  /\ showDeleteDialog
  /\ showDeleteDialog' = FALSE
  /\ detailStep' = DetailStep("handleCancelDelete", 0, 0)
  /\ UNCHANGED <<detailId, detailAsset, detailLoading, detailError, deleteError,
                 deletePending, location, detailToasts>>
  /\ DetailFrame

\* handleConfirmDelete up to its await: deleteAsset(assetId) sets the hook's
\* error to null and sends the request; the handler keeps the deleteError of
\* the render it belongs to.
handleConfirmDelete ==
  /\ location = "detail"
  /\ showDeleteDialog
  /\ deletePending = Null
  /\ Len(detailToasts) < MaxDetailToasts
  /\ deletePending' = <<deleteError>>
  /\ deleteError' = Null
  /\ detailStep' = DetailStep("handleConfirmDelete", 0, 0)
  /\ UNCHANGED <<detailId, detailAsset, detailLoading, detailError, showDeleteDialog,
                 location, detailToasts>>
  /\ DetailFrame

\* The delete succeeds: deleteAsset resolves to true; success toast and
\* navigate("/assets").
DeleteSucceeds ==
  /\ location = "detail"
  /\ deletePending # Null
  /\ deletePending' = Null
  /\ detailToasts' = Append(detailToasts, DetailToast("success", "Asset has been successfully deleted."))
  /\ location' = "list"
  /\ detailStep' = DetailStep("deleteOk", 0, 0)
  /\ UNCHANGED <<detailId, detailAsset, detailLoading, detailError, showDeleteDialog,
                 deleteError>>
  /\ DetailFrame

\* The delete fails: deleteAsset stores the message and resolves to false;
\* the handler closes the dialog and may show the generic toast; the page
\* renders with the new deleteError and the effect shows it.
DeleteFails ==
  /\ location = "detail"
  /\ deletePending # Null
  /\ \E thrown \in DetailFailures :
       LET message == hookCatch("useDeleteAsset", apiCatch(thrown)).error
           shown == deleteFailureToasts(deletePending[1], message[1])
       IN /\ deleteError' = message
          /\ detailToasts' = detailToasts \o shown
          /\ detailStep' = DetailStep("deleteFail", thrown.status, Len(shown))
  /\ deletePending' = Null
  /\ showDeleteDialog' = FALSE
  /\ UNCHANGED <<detailId, detailAsset, detailLoading, detailError, location>>
  /\ DetailFrame

DetailNext ==
  \/ DetailMount
  \/ DetailRetry
  \/ DetailChangeId
  \/ DetailFetchOk
  \/ DetailFetchFail
  \/ handleDelete
  \/ handleCancelDelete
  \/ handleConfirmDelete
  \/ DeleteSucceeds
  \/ DeleteFails

SpecDetail == DetailInit /\ [][DetailNext]_allVars

\* C23: once the fetch for the asset has failed, the page renders 'Asset Not
\* Found' without a retry action when the failure was a 404, and 'Error
\* Loading Asset' with a retry action for every other failure.
C23_ErrorStateByFailure ==
  (detailStep.op = "fetchFail") =>
    IF detailStep.status = 404
    THEN Rendered = DetailView("Asset Not Found", FALSE)
    ELSE Rendered = DetailView("Error Loading Asset", TRUE)

\* C24: when a confirmed delete fails, the confirmation dialog is closed, the
\* router stays on the detail page, and exactly one error toast is shown for
\* that failure, on the first failure and on repeated ones.
C24_OneToastPerFailedDelete ==
  (detailStep.op = "deleteFail") =>
    /\ ~showDeleteDialog
    /\ location = "detail"
    /\ detailStep.toasts = 1

\* ---------------------------------------------------------- SearchFilter

\* What the user types and selects ("" is the empty input, 'All Categories').
SearchTerms == {"", "laptop", "desk"}
SearchCategories == {"", "Electronics"}
SearchStatuses == {"", "active"}

\* The filters as SearchFilter reads them: filters.search || "",
\* filters.category || "" and filters.status || "".
SearchFilters(search, category, status) ==
  [search |-> search, category |-> category, status |-> status]

SearchStep(op, emitted, cleared) == [op |-> op, emitted |-> emitted, cleared |-> cleared]

\* useDebounce(value, 300): a change of the value replaces the pending timer
\* by one that delivers the new value; without a change nothing happens.
useDebounce(value, newValue, pendingTimer) ==
  IF newValue # value THEN <<newValue>> ELSE pendingTimer

\* The debounced-search effect, run after a render in which the debounced
\* value or the filters changed: it emits the filters with the debounced
\* value as search when that differs from filters.search.
searchEffect(debounced, filters) ==
  IF debounced # filters.search
  THEN <<[filters EXCEPT !.search = debounced]>>
  ELSE <<>>

\* AssetList.handleFiltersChange applies every update it is handed: the
\* filters after the updates, the current ones when there is none.
appliedFilters(filters, updates) ==
  IF updates = <<>> THEN filters ELSE updates[Len(updates)]

SearchInit ==
  /\ searchFilters \in {SearchFilters(s, "", "") : s \in {"", "laptop"}}
  /\ searchTerm = searchFilters.search
  /\ debouncedSearchTerm = searchFilters.search
  /\ debounceTimer = Null
  /\ searchStep = SearchStep("none", <<>>, Null)
  /\ SearchRest

\* The user types: setSearchTerm(value).
handleSearchChange ==
  \E value \in SearchTerms :
    /\ searchTerm' = value
    /\ debounceTimer' = useDebounce(searchTerm, value, debounceTimer)
    /\ searchStep' = SearchStep("handleSearchChange", <<>>, Null)
    /\ UNCHANGED <<debouncedSearchTerm, searchFilters>>
    /\ SearchFrame

\* The debounce timer fires: the debounced value catches up and the effect
\* runs.
DebounceFires ==
  LET emitted == searchEffect(debounceTimer[1], searchFilters)
  IN /\ debounceTimer # Null
     /\ debouncedSearchTerm' = debounceTimer[1]
     /\ debounceTimer' = Null
     /\ searchFilters' = appliedFilters(searchFilters, emitted)
     /\ searchStep' = SearchStep("debounce", emitted, searchStep.cleared)
     /\ UNCHANGED searchTerm
     /\ SearchFrame

\* A handler emits update, setting the search term to newTerm when it sets
\* it at all: AssetList applies the update, SearchFilter renders with the new
\* filters and the effect runs.
emitUpdate(op, update, newTerm, cleared) ==
  LET emitted == <<update>> \o searchEffect(debouncedSearchTerm, update)
  IN /\ searchTerm' = newTerm
     /\ debounceTimer' = useDebounce(searchTerm, newTerm, debounceTimer)
     /\ searchFilters' = appliedFilters(searchFilters, emitted)
     /\ searchStep' = SearchStep(op, emitted, cleared)
     /\ UNCHANGED debouncedSearchTerm
     /\ SearchFrame

\* The search term a click clears: filters.search, when there is one; else
\* what was cleared before stays.
clearedBy(filters) ==
  IF filters.search # "" THEN <<filters.search>> ELSE searchStep.cleared

handleCategoryFilter ==
  \E category \in SearchCategories :
    emitUpdate("handleCategoryFilter", [searchFilters EXCEPT !.category = category],
               searchTerm, searchStep.cleared)

handleStatusFilter ==
  \E status \in SearchStatuses :
    emitUpdate("handleStatusFilter", [searchFilters EXCEPT !.status = status],
               searchTerm, searchStep.cleared)

\* 'Clear Filters', shown while a filter is active.
hasActiveFilters ==
  searchFilters.search # "" \/ searchFilters.category # "" \/ searchFilters.status # ""

handleClearFilters ==
  /\ hasActiveFilters
  /\ emitUpdate("handleClearFilters", SearchFilters("", "", ""), "",
                clearedBy(searchFilters))

\* The remove button of the search tag, shown while filters.search is set.
removeSearchTag ==
  /\ searchFilters.search # ""
  /\ emitUpdate("removeSearchTag", [searchFilters EXCEPT !.search = ""], "",
                clearedBy(searchFilters))

SearchNext ==
  \/ handleSearchChange
  \/ DebounceFires
  \/ handleCategoryFilter
  \/ handleStatusFilter
  \/ handleClearFilters
  \/ removeSearchTag

SpecSearch == SearchInit /\ [][SearchNext]_allVars

\* C29: after the user clicks 'Clear Filters' or removes the search tag, no
\* filter update SearchFilter emits contains the search term that was
\* cleared, until the user types again: a debounced value that has not caught
\* up is not applied to the filters again.
C29_ClearedTermStaysCleared ==
  (searchStep.cleared # Null) =>
    \A i \in 1..Len(searchStep.emitted) :
      searchStep.emitted[i].search # searchStep.cleared[1]

====
